---- MODULE Spec2Model ----
(***************************************************************************)
(* A model of the array operators of the inference engine                  *)
(* (src/src/ops/mod.rs, src/src/ops/array/mod.rs) over the tensor type of  *)
(* src/src/matrix.rs and the abstract tensors of src/src/analyser/types.rs.*)
(*                                                                         *)
(* A call of the code ends in one of three ways, and the model keeps them  *)
(* apart: Ok(v) (the Result is Ok), Err(msg) (the Result is Err, msg the   *)
(* error-chain message) and Panic(msg) (the thread unwinds: panic!, an     *)
(* index out of bounds, a division by zero).                               *)
(***************************************************************************)
EXTENDS Integers, Sequences, FiniteSets, TLC

VARIABLES
    op,       \* the outcome of the last OpBuilder::build (the Box<Op> under evaluation)
    call,     \* which method of op ran last: "build", "eval", "infer_forward", ...
    inputs,   \* the Vec handed to that method (tensors or abstract tensors)
    result,   \* its outcome
    feed,     \* round trips: the source tensor and axes the two-node chain started from
    stage,    \* round trips: how many nodes of the chain have been evaluated
    shared,   \* the tensors the evaluation state holds behind Arc handles
    cli       \* the command-line process: its position, model, plan and exit code

vars == <<op, call, inputs, result, feed, stage, shared, cli>>

----------------------------------------------------------------------------
(* Bounds of the model.                                                    *)

\* The largest rank of a data tensor fed to an operator.
MaxRank == 2
\* The largest size of one axis of a data tensor, and the largest entry of a dims vector.
MaxDim == 3
\* The longest dims input (Reshape, ExpandDims) and squeeze_dims attribute.
MaxAxes == 2

----------------------------------------------------------------------------
(* Outcomes.                                                               *)

Ok(v) == [tag |-> "Ok", val |-> v, msg |-> <<>>]
Err(m) == [tag |-> "Err", val |-> <<>>, msg |-> m]
Panic(m) == [tag |-> "Panic", val |-> <<>>, msg |-> m]
None == [tag |-> "None", val |-> <<>>, msg |-> <<>>]

IsOk(r) == r.tag = "Ok"
IsErr(r) == r.tag = "Err"
IsPanic(r) == r.tag = "Panic"

\* Sequences over S of length at most n.
SeqUpTo(S, n) == UNION {[1..k -> S] : k \in 0..n}

RECURSIVE Product(_)
Product(s) == IF s = <<>> THEN 1 ELSE Head(s) * Product(Tail(s))

Contains(s, v) == \E i \in 1..Len(s) : s[i] = v

----------------------------------------------------------------------------
(* Tensors (Matrix).  A tensor is its variant tag, its shape and its       *)
(* elements in row-major order.  usize is modelled with the modulus        *)
(* UsizeModulus in the place of 2^64 (TLC's integers stop at 2^31): a      *)
(* negative i32 cast to usize wraps to UsizeModulus - |a|, far above every *)
(* size the bounds allow, exactly as 2^64 - |a| is.                        *)

Tensor(dt, sh, d) == [dtype |-> dt, shape |-> sh, data |-> d]

UsizeModulus == 2^15

\* `a as usize` of an i32: sign extension, i.e. a modulo the word size.
AsUsize(a) == a % UsizeModulus

\* `s as i32` of a usize: the low bits read as a signed number.
AsI32(s) == IF s >= UsizeModulus \div 2 THEN s - UsizeModulus ELSE s

\* Rust's integer division truncates toward zero (TLA+'s \div floors).
TruncDiv(a, b) ==
    IF (a >= 0) = (b > 0) THEN (IF a >= 0 THEN a ELSE -a) \div (IF b > 0 THEN b ELSE -b)
    ELSE -((IF a >= 0 THEN a ELSE -a) \div (IF b > 0 THEN b ELSE -b))

SomeSize(n) == [some |-> TRUE, v |-> n]
NoSize == [some |-> FALSE, v |-> 0]

\* usize::checked_mul: None when the product does not fit the word.
CheckedMul(s, a) ==
    IF s * a >= UsizeModulus THEN NoSize ELSE SomeSize(s * a)

\* ndarray's Dimension::size_checked: a fold of checked_mul from Some(1).
RECURSIVE SizeCheckedFrom(_, _)
SizeCheckedFrom(acc, sh) ==
    IF sh = <<>> THEN acc
    ELSE IF ~acc.some THEN NoSize
    ELSE SizeCheckedFrom(CheckedMul(acc.v, Head(sh)), Tail(sh))

SizeChecked(sh) == SizeCheckedFrom(SomeSize(1), sh)

ShapeErrorMsg == <<"ShapeError/IncompatibleShape: incompatible shapes">>

\* ArrayBase::into_shape on a standard-layout array: the elements stay in
\* row-major order, and the call fails unless the sizes agree.
IntoShape(t, sh) ==
    IF SizeChecked(sh) # SomeSize(Len(t.data))
    THEN Err(ShapeErrorMsg)
    ELSE Ok(Tensor(t.dtype, sh, t.data))

\* Matrix::as_f32s / take_f32s, as_i32s: Some exactly for the matching variant.
IsF32(t) == t.dtype = "F32"
IsI32(t) == t.dtype = "I32"

----------------------------------------------------------------------------
(* The operator registry (ops/mod.rs, ops/array/mod.rs).                   *)

\* The names array::register_all_ops inserts.
ArrayOpNames ==
    {"ConcatV2", "ExpandDims", "Identity", "Pack", "Placeholder",
     "Reshape", "Shape", "Squeeze", "StridedSlice"}

\* Vec::sort followed by Vec::reverse: the list in descending order.
RECURSIVE InsertDesc(_, _)
InsertDesc(v, s) ==
    IF s = <<>> THEN <<v>>
    ELSE IF v >= Head(s) THEN <<v>> \o s
    ELSE <<Head(s)>> \o InsertDesc(v, Tail(s))

RECURSIVE SortDesc(_)
SortDesc(s) == IF s = <<>> THEN <<>> ELSE InsertDesc(Head(s), SortDesc(Tail(s)))

\* Squeeze::build: the squeeze_dims attribute, sorted and reversed.
SqueezeBuild(pb) ==
    Ok([kind |-> "Squeeze", name |-> pb.op, dims |-> SortDesc(pb.squeeze_dims),
        datatype |-> "none", n |-> 0])

\* The builders of the operators that keep no attribute (ExpandDims, Identity,
\* Reshape, Shape).
SimpleBuild(pb) ==
    Ok([kind |-> pb.op, name |-> pb.op, dims |-> <<>>, datatype |-> "none", n |-> 0])

\* Placeholder::build: keeps the node's dtype attribute.
PlaceholderBuild(pb) ==
    Ok([kind |-> "Placeholder", name |-> pb.op, dims |-> <<>>, datatype |-> pb.dtype,
        n |-> 0])

\* ConcatV2::build: pb.get_attr_int("N")?, an error when the node has no N.
ConcatV2Build(pb) ==
    IF ~pb.N.some THEN Err(<<"Node ", pb.op, " expected int attribute N">>)
    ELSE Ok([kind |-> "ConcatV2", name |-> pb.op, dims |-> <<>>, datatype |-> "none",
             n |-> pb.N.v])

\* The operator an unknown name stands for: UnimplementedOp(name, node).
UnimplementedBuild(pb) ==
    Ok([kind |-> "Unimplemented", name |-> pb.op, dims |-> <<>>, datatype |-> "none",
        n |-> 0])

\* Mutant of OpBuilderBuild: an unknown name fails the build.
OpBuilderBuild_RejectUnknown(pb) ==
    IF pb.op \in ArrayOpNames
    THEN (IF pb.op = "Squeeze" THEN SqueezeBuild(pb)
          ELSE IF pb.op = "Placeholder" THEN PlaceholderBuild(pb)
          ELSE IF pb.op = "ConcatV2" THEN ConcatV2Build(pb)
          ELSE SimpleBuild(pb))
    ELSE Err(<<"unknown operation: ", pb.op>>)

\* OpBuilder::build: the registered builder, or an UnimplementedOp.
OpBuilderBuild(pb) ==
    IF pb.op \in ArrayOpNames
    THEN (IF pb.op = "Squeeze" THEN SqueezeBuild(pb)
          ELSE IF pb.op = "Placeholder" THEN PlaceholderBuild(pb)
          ELSE IF pb.op = "ConcatV2" THEN ConcatV2Build(pb)
          ELSE SimpleBuild(pb))
    ELSE UnimplementedBuild(pb)

----------------------------------------------------------------------------
(* eval of each operator.                                                  *)

\* UnimplementedOp::eval: format!("unimplemented operation: {}", self.0).
UnimplementedEval(o, ins) == Err(<<"unimplemented operation: ", o.name>>)

\* Placeholder::eval.
PlaceholderEval(o, ins) == Panic(<<"Placeholder should not get evaluated">>)

\* Identity::eval.
IdentityEval(o, ins) == Ok(ins)

\* Mutant of TrueDims: the -1 becomes the whole input length, undivided.
TrueDims_NoDivide(dims, input_length) ==
    Ok([i \in 1..Len(dims) |->
            AsUsize(IF dims[i] = -1 THEN input_length ELSE dims[i])])

\* Reshape::true_dims: every -1 becomes input_length / (product of the others).
TrueDims(dims, input_length) ==
    IF Contains(dims, -1)
    THEN LET prod == Product(SelectSeq(dims, LAMBDA a : a # -1))
         IN  IF prod = 0
             THEN Panic(<<"attempt to divide by zero">>)
             ELSE Ok([i \in 1..Len(dims) |->
                        AsUsize(IF dims[i] = -1 THEN TruncDiv(input_length, prod)
                                ELSE dims[i])])
    ELSE Ok([i \in 1..Len(dims) |-> AsUsize(dims[i])])

\* Mutant of ReshapeEval: the two arguments are taken in the wrong order.
ReshapeEval_SwappedArgs(o, ins) ==
    LET input == ins[2]
        dims == ins[1]
    IN  IF ~IsF32(input) THEN Err(<<"Expected a f32 matrix">>)
        ELSE IF ~IsI32(dims) THEN Err(<<"Expected a i32 matrix">>)
        ELSE LET td == TrueDims(dims.data, Len(input.data))
             IN  IF ~IsOk(td) THEN td
                 ELSE LET r == IntoShape(input, td.val)
                      IN  IF IsOk(r) THEN Ok(<<r.val>>) ELSE r

\* Reshape::eval.
ReshapeEval(o, ins) ==
    LET input == ins[1]
        dims == ins[2]
    IN  IF ~IsF32(input) THEN Err(<<"Expected a f32 matrix">>)
        ELSE IF ~IsI32(dims) THEN Err(<<"Expected a i32 matrix">>)
        ELSE LET td == TrueDims(dims.data, Len(input.data))
             IN  IF ~IsOk(td) THEN td
                 ELSE LET r == IntoShape(input, td.val)
                      IN  IF IsOk(r) THEN Ok(<<r.val>>) ELSE r

\* Mutant of ShapeEval: the output holds the rank, not the dimensions.
ShapeEval_Rank(o, ins) ==
    IF Len(ins) = 0 THEN Panic(<<"index out of bounds">>)
    ELSE IF ~IsF32(ins[1]) THEN Err(<<"Expect input #0 to be f32">>)
    ELSE Ok(<<Tensor("I32", <<1>>, <<Len(ins[1].shape)>>)>>)

\* Shape::eval.
ShapeEval(o, ins) ==
    IF Len(ins) = 0 THEN Panic(<<"index out of bounds">>)
    ELSE IF ~IsF32(ins[1]) THEN Err(<<"Expect input #0 to be f32">>)
    ELSE LET shape == [i \in 1..Len(ins[1].shape) |-> AsI32(ins[1].shape[i])]
         IN  Ok(<<Tensor("I32", <<Len(shape)>>, shape)>>)

\* Vec::insert(index, 1), which panics when index > len.
VecInsert(s, index, v) ==
    IF index > Len(s) THEN Panic(<<"insertion index is out of bounds">>)
    ELSE Ok(SubSeq(s, 1, index) \o <<v>> \o SubSeq(s, index + 1, Len(s)))

\* Mutant of VecRemove: the last element goes, whatever the index.
VecRemove_Last(s, index) ==
    IF index >= Len(s) THEN Panic(<<"removal index is out of bounds">>)
    ELSE Ok(SubSeq(s, 1, Len(s) - 1))

\* Vec::remove(index), which panics when index >= len.
VecRemove(s, index) ==
    IF index >= Len(s) THEN Panic(<<"removal index is out of bounds">>)
    ELSE Ok(SubSeq(s, 1, index) \o SubSeq(s, index + 2, Len(s)))

\* The loop of ExpandDims::eval over dims, in the order of the dims tensor.
RECURSIVE ExpandShape(_, _)
ExpandShape(shape, dims) ==
    IF dims = <<>> THEN Ok(shape)
    ELSE IF Head(dims) >= 0
         THEN LET r == VecInsert(shape, AsUsize(Head(dims)), 1)
              IN  IF IsOk(r) THEN ExpandShape(r.val, Tail(dims)) ELSE r
         ELSE Err(<<"unimplemented ExpandDims with negative parameter">>)

\* ExpandDims::eval.
ExpandDimsEval(o, ins) ==
    LET data == ins[1]
        dims == ins[2]
    IN  IF ~IsF32(data) THEN Err(<<"Expected a f32 matrix">>)
        ELSE IF ~IsI32(dims) THEN Err(<<"Expected a i32 matrix">>)
        ELSE LET sh == ExpandShape(data.shape, dims.data)
             IN  IF ~IsOk(sh) THEN sh
                 ELSE LET r == IntoShape(data, sh.val)
                      IN  IF IsOk(r) THEN Ok(<<r.val>>) ELSE r

\* Squeeze::squeeze_shape: the loop over self.dims (descending since build).
RECURSIVE SqueezeShape(_, _)
SqueezeShape(dims, shape) ==
    IF dims = <<>> THEN Ok(shape)
    ELSE IF Head(dims) >= 0
         THEN LET r == VecRemove(shape, AsUsize(Head(dims)))
              IN  IF IsOk(r) THEN SqueezeShape(Tail(dims), r.val) ELSE r
         ELSE Err(<<"unimplemented Squeeze with negative parameter">>)

\* Squeeze::eval.
SqueezeEval(o, ins) ==
    IF Len(ins) = 0 THEN Panic(<<"index out of bounds">>)
    ELSE IF ~IsF32(ins[1]) THEN Err(<<"Expect input #0 to be f32">>)
    ELSE LET sh == SqueezeShape(o.dims, ins[1].shape)
         IN  IF ~IsOk(sh) THEN sh
             ELSE LET r == IntoShape(ins[1], sh.val)
                  IN  IF IsOk(r) THEN Ok(<<r.val>>) ELSE r

\* The elements of the arrays joined along an axis: with outer the product
\* of the axes before it, the o-th block of every array in turn, for each o.
RECURSIVE StackData(_, _, _)
StackData(mats, outer, o) ==
    IF o > outer THEN <<>>
    ELSE LET RECURSIVE Blocks(_)
             Blocks(i) ==
                IF i > Len(mats) THEN <<>>
                ELSE LET chunk == Len(mats[i].data) \div outer
                     IN  SubSeq(mats[i].data, (o - 1) * chunk + 1, o * chunk) \o Blocks(i + 1)
         IN  Blocks(1) \o StackData(mats, outer, o + 1)

\* The shape without its axis-th axis (axis counted from 0).
RemoveAxis(sh, axis) == SubSeq(sh, 1, axis) \o SubSeq(sh, axis + 2, Len(sh))

\* The sum of the lengths of the arrays along the axis.
RECURSIVE StackedDim(_, _)
StackedDim(mats, axis) ==
    IF mats = <<>> THEN 0
    ELSE Head(mats).shape[axis + 1] + StackedDim(Tail(mats), axis)

\* ndarray::stack of arrays of one rank: the arrays joined along the axis.
Stack(axis, mats) ==
    IF Len(mats) = 0 THEN Err(<<"ShapeError/Unsupported: unsupported operation">>)
    ELSE IF axis >= Len(mats[1].shape)
         THEN Err(<<"ShapeError/OutOfBounds: out of bounds indexing">>)
    ELSE IF \E i \in 1..Len(mats) :
                RemoveAxis(mats[i].shape, axis) # RemoveAxis(mats[1].shape, axis)
         THEN Err(ShapeErrorMsg)
    ELSE LET res_dim == [mats[1].shape EXCEPT ![axis + 1] = StackedDim(mats, axis)]
             outer == Product(SubSeq(res_dim, 1, axis))
         IN  Ok(Tensor("F32", res_dim, StackData(mats, outer, 1)))

\* ConcatV2::eval: the axis is the first element of input n, the data are
\* the inputs before it.
ConcatV2Eval(o, ins) ==
    IF o.n >= Len(ins) THEN Panic(<<"index out of bounds">>)
    ELSE IF ~IsI32(ins[o.n + 1]) THEN Err(<<"Expected a i32 matrix">>)
    ELSE IF ins[o.n + 1].data = <<>>
         THEN Panic(<<"called Option::unwrap() on a None value">>)
    ELSE IF \E i \in 1..o.n : ~IsF32(ins[i])
         THEN Panic(<<"called Option::unwrap() on a None value">>)
    ELSE LET axis == ins[o.n + 1].data[1]
             r == Stack(AsUsize(axis), SubSeq(ins, 1, o.n))
         IN  IF IsOk(r) THEN Ok(<<r.val>>) ELSE r

----------------------------------------------------------------------------
(* Abstract tensors (analyser/types.rs) and Identity's inference.          *)

AnyType == [only |-> FALSE, v |-> "none"]
OnlyType(dt) == [only |-> TRUE, v |-> dt]
AnyDim == [only |-> FALSE, v |-> 0]
OnlyDim(k) == [only |-> TRUE, v |-> k]
OpenShape(ds) == [open |-> TRUE, dims |-> ds]
ClosedShape(ds) == [open |-> FALSE, dims |-> ds]
AnyValue == [only |-> FALSE, v |-> Tensor("none", <<>>, <<>>)]
OnlyValue(t) == [only |-> TRUE, v |-> t]
ATensor(dt, sh, v) == [datatype |-> dt, shape |-> sh, value |-> v]

\* ATensor::new(): the most general abstract tensor.
ATensorNew == ATensor(AnyType, OpenShape(<<>>), AnyValue)

\* Mutant of IdentityInferForward: the output is the most general tensor.
IdentityInferForward_General(o, ins) ==
    IF Len(ins) # 1 THEN Err(<<"Identity operation only supports one input.">>)
    ELSE Ok(<<ATensorNew>>)

\* Identity::infer_forward.
IdentityInferForward(o, ins) ==
    IF Len(ins) # 1 THEN Err(<<"Identity operation only supports one input.">>)
    ELSE Ok(ins)

\* Identity::infer_backward.
IdentityInferBackward(o, outs) ==
    IF Len(outs) # 1 THEN Err(<<"Identity operation only supports one output.">>)
    ELSE Ok(outs)

----------------------------------------------------------------------------
(* The inputs the model draws.                                             *)

\* The shapes of the data tensors.
Shapes == SeqUpTo(0..MaxDim, MaxRank)

\* n distinct elements, so that a reordering shows.
Fill(n) == [i \in 1..n |-> i]

F32Tensors == {Tensor("F32", sh, Fill(Product(sh))) : sh \in Shapes}

\* Tensors of the other variants, which the operators here do not accept as data.
OtherTensors == {Tensor("I32", <<2>>, <<7, 8>>), Tensor("F64", <<1>>, <<9>>)}

DataTensors == F32Tensors \cup OtherTensors

\* The entries of a dims input: -1, another negative number, and sizes.
DimVals == (-2)..MaxDim

DimsTensors == {Tensor("I32", <<Len(d)>>, d) : d \in SeqUpTo(DimVals, MaxAxes)}

\* A dims input of the wrong variant.
BadDimsTensor == Tensor("F32", <<1>>, <<1>>)

TwoInputs == {<<x, d>> : x \in DataTensors, d \in DimsTensors \cup {BadDimsTensor}}

OneInput == {<<>>} \cup {<<x>> : x \in DataTensors}

\* The tensor with every element raised by k, to tell two inputs apart.
Shifted(t, k) == Tensor(t.dtype, t.shape, [i \in 1..Len(t.data) |-> t.data[i] + k])

\* The axis input of ConcatV2: one position, no position, or the wrong variant.
ConcatAxisTensors ==
    {Tensor("I32", <<>>, <<k>>) : k \in (-1)..MaxRank}
    \cup {Tensor("I32", <<0>>, <<>>), BadDimsTensor}

\* Two shapes of one rank that differ along one axis at most.
SameButOne(a, b) ==
    /\ Len(a) = Len(b)
    /\ \A i, j \in 1..Len(a) : (a[i] # b[i] /\ a[j] # b[j]) => i = j

\* The inputs of ConcatV2: one or two data tensors (two of one rank whose
\* shapes differ along one axis at most, the second with other elements),
\* then the axis.
ConcatInputs ==
    {<<x, a>> : x \in DataTensors, a \in ConcatAxisTensors}
    \cup {<<p[1], Shifted(p[2], MaxDim * MaxDim), a>> :
            p \in {q \in F32Tensors \X F32Tensors : SameButOne(q[1].shape, q[2].shape)},
            a \in ConcatAxisTensors}
    \cup {<<x, y, a>> : x \in F32Tensors, y \in OtherTensors, a \in ConcatAxisTensors}

\* The positions of a squeeze_dims attribute: a negative one, the axes of a
\* tensor, and one past the last axis of the largest.
AxisVals == (-1)..MaxRank

AxisLists == SeqUpTo(AxisVals, MaxAxes)

\* A node of the graph: its op name and the attributes the builders read
\* (N is absent unless the node is made by ConcatNode).
Node(name, sq, dt) == [op |-> name, squeeze_dims |-> sq, dtype |-> dt, N |-> NoSize]

\* A ConcatV2 node with its attribute N, or without it.
ConcatNode(N) == [op |-> "ConcatV2", squeeze_dims |-> <<>>, dtype |-> "none", N |-> N]

\* Operator names no module registers.
UnknownNames == {"FancyOp", "NotAnOp"}

Nodes ==
    {Node(n, <<>>, "none") : n \in {"ExpandDims", "Identity", "Reshape", "Shape"} \cup UnknownNames}
    \cup {Node("Placeholder", <<>>, dt) : dt \in {"DT_FLOAT", "DT_INT32"}}
    \cup {Node("Squeeze", a, "none") : a \in AxisLists}
    \cup {ConcatNode(N) : N \in {NoSize, SomeSize(1), SomeSize(2)}}

\* The abstract tensors handed to inference.
ATensors ==
    {ATensor(dt, sh, v) :
        dt \in {AnyType, OnlyType("DT_FLOAT")},
        sh \in {OpenShape(<<>>), ClosedShape(<<>>), ClosedShape(<<OnlyDim(2), AnyDim>>)},
        v \in {AnyValue, OnlyValue(Tensor("F32", <<2>>, <<1, 2>>))}}

ATensorVecs == SeqUpTo(ATensors, 2)

----------------------------------------------------------------------------
(* The state machine: build an operator, then call its methods.            *)

NoFeed == [x |-> Tensor("none", <<>>, <<>>), ks |-> <<>>]

\* The command-line process before main has run: no model, no plan, no
\* outcome of handle, no exit code; for compare, no outputs in the
\* evaluation state, no output read, no status printed, no error counted.
NoCli ==
    [pc |-> "start", cmd |-> "none", graph |-> <<>>, plan |-> None, pos |-> 0,
     visited |-> {}, outcome |-> None, exit |-> -1,
     outputs |-> <<>>, reads |-> {}, printed |-> {}, errors |-> 0]

Init ==
    /\ op = None
    /\ call = "new"
    /\ inputs = <<>>
    /\ result = None
    /\ feed = NoFeed
    /\ stage = 0
    /\ shared = <<>>
    /\ cli = NoCli

\* The operator that build returned is of this kind.
IsKind(kind) == IsOk(op) /\ op.val.kind = kind

\* A freshly built operator of this kind: operators keep no state between
\* calls, so the model makes one call on each operator it builds.
Built(kind) == IsKind(kind) /\ call = "build"

\* OpBuilder::build on a node of the graph.
Build ==
    /\ call = "new"
    /\ \E pb \in Nodes :
        /\ op' = OpBuilderBuild(pb)
        /\ call' = "build"
        /\ inputs' = <<pb>>
        /\ result' = None
        /\ UNCHANGED <<feed, stage, shared, cli>>

EvalUnimplemented ==
    /\ Built("Unimplemented")
    /\ \E ins \in OneInput :
        /\ inputs' = ins
        /\ result' = UnimplementedEval(op.val, ins)
    /\ call' = "eval"
    /\ UNCHANGED <<op, feed, stage, shared, cli>>

EvalPlaceholder ==
    /\ Built("Placeholder")
    /\ \E ins \in OneInput :
        /\ inputs' = ins
        /\ result' = PlaceholderEval(op.val, ins)
    /\ call' = "eval"
    /\ UNCHANGED <<op, feed, stage, shared, cli>>

EvalIdentity ==
    /\ Built("Identity")
    /\ \E ins \in OneInput :
        /\ inputs' = ins
        /\ result' = IdentityEval(op.val, ins)
    /\ call' = "eval"
    /\ UNCHANGED <<op, feed, stage, shared, cli>>

EvalReshape ==
    /\ Built("Reshape")
    /\ \E ins \in TwoInputs :
        /\ inputs' = ins
        /\ result' = ReshapeEval(op.val, ins)
    /\ call' = "eval"
    /\ UNCHANGED <<op, feed, stage, shared, cli>>

EvalShape ==
    /\ Built("Shape")
    /\ \E ins \in OneInput :
        /\ inputs' = ins
        /\ result' = ShapeEval(op.val, ins)
    /\ call' = "eval"
    /\ UNCHANGED <<op, feed, stage, shared, cli>>

EvalExpandDims ==
    /\ Built("ExpandDims")
    /\ \E ins \in TwoInputs :
        /\ inputs' = ins
        /\ result' = ExpandDimsEval(op.val, ins)
    /\ call' = "eval"
    /\ UNCHANGED <<op, feed, stage, shared, cli>>

EvalSqueeze ==
    /\ Built("Squeeze")
    /\ \E ins \in OneInput :
        /\ inputs' = ins
        /\ result' = SqueezeEval(op.val, ins)
    /\ call' = "eval"
    /\ UNCHANGED <<op, feed, stage, shared, cli>>

EvalConcatV2 ==
    /\ Built("ConcatV2")
    /\ \E ins \in ConcatInputs :
        /\ inputs' = ins
        /\ result' = ConcatV2Eval(op.val, ins)
    /\ call' = "eval"
    /\ UNCHANGED <<op, feed, stage, shared, cli>>

InferForwardIdentity ==
    /\ Built("Identity")
    /\ \E ins \in ATensorVecs :
        /\ inputs' = ins
        /\ result' = IdentityInferForward(op.val, ins)
    /\ call' = "infer_forward"
    /\ UNCHANGED <<op, feed, stage, shared, cli>>

InferBackwardIdentity ==
    /\ Built("Identity")
    /\ \E outs \in ATensorVecs :
        /\ inputs' = outs
        /\ result' = IdentityInferBackward(op.val, outs)
    /\ call' = "infer_backward"
    /\ UNCHANGED <<op, feed, stage, shared, cli>>

\* The operator and the outcome of its call are dropped.
Discard ==
    /\ call # "new"
    /\ op' = None
    /\ call' = "new"
    /\ inputs' = <<>>
    /\ result' = None
    /\ UNCHANGED <<feed, stage, shared, cli>>

Next ==
    \/ Build
    \/ Discard
    \/ EvalUnimplemented
    \/ EvalPlaceholder
    \/ EvalIdentity
    \/ EvalReshape
    \/ EvalShape
    \/ EvalExpandDims
    \/ EvalSqueeze
    \/ EvalConcatV2
    \/ InferForwardIdentity
    \/ InferBackwardIdentity

Spec == Init /\ [][Next]_vars

----------------------------------------------------------------------------
(* Round trips: a chain of two nodes evaluated in plan order, the second   *)
(* node reading the outputs the first one stored.                          *)

\* The I32 vector tensor holding the axes ks.
AxesTensor(ks) == Tensor("I32", <<Len(ks)>>, ks)

\* First node: Shape applied to x.
ChainShape ==
    /\ stage = 0
    /\ \E x \in DataTensors :
        /\ feed' = [x |-> x, ks |-> <<>>]
        /\ op' = OpBuilderBuild(Node("Shape", <<>>, "none"))
        /\ inputs' = <<x>>
        /\ result' = ShapeEval(op'.val, <<x>>)
    /\ call' = "eval"
    /\ stage' = 1
    /\ UNCHANGED <<shared, cli>>

\* Second node: Reshape of x to the output of the Shape node.
ChainReshape ==
    /\ stage = 1
    /\ IsKind("Shape")
    /\ IsOk(result)
    /\ op' = OpBuilderBuild(Node("Reshape", <<>>, "none"))
    /\ inputs' = <<feed.x, result.val[1]>>
    /\ result' = ReshapeEval(op'.val, inputs')
    /\ call' = "eval"
    /\ stage' = 2
    /\ UNCHANGED <<feed, shared, cli>>

\* First node: ExpandDims applied to x and the axes ks.
ChainExpandDims ==
    /\ stage = 0
    /\ \E x \in DataTensors, ks \in AxisLists :
        /\ feed' = [x |-> x, ks |-> ks]
        /\ op' = OpBuilderBuild(Node("ExpandDims", <<>>, "none"))
        /\ inputs' = <<x, AxesTensor(ks)>>
        /\ result' = ExpandDimsEval(op'.val, inputs')
    /\ call' = "eval"
    /\ stage' = 1
    /\ UNCHANGED <<shared, cli>>

\* Second node: Squeeze, with squeeze_dims the same axes, of the output of
\* the ExpandDims node.
ChainSqueeze ==
    /\ stage = 1
    /\ IsKind("ExpandDims")
    /\ IsOk(result)
    /\ op' = OpBuilderBuild(Node("Squeeze", feed.ks, "none"))
    /\ IsOk(op')
    /\ inputs' = result.val
    /\ result' = SqueezeEval(op'.val, inputs')
    /\ call' = "eval"
    /\ stage' = 2
    /\ UNCHANGED <<feed, shared, cli>>

NextChain ==
    \/ ChainShape
    \/ ChainReshape
    \/ ChainExpandDims
    \/ ChainSqueeze

SpecChain == Init /\ [][NextChain]_vars

----------------------------------------------------------------------------
(* The error kinds of the specification, read off the code's messages.     *)

ErrorKind(msg) ==
    IF msg = <<>> THEN "none"
    ELSE IF msg[1] \in {"Expected a f32 matrix", "Expected a i32 matrix",
                        "Expect input #0 to be f32"} THEN "TypeMismatch"
    ELSE IF msg = ShapeErrorMsg THEN "ShapeMismatch"
    ELSE IF msg[1] \in {"unimplemented ExpandDims with negative parameter",
                        "unimplemented Squeeze with negative parameter"}
         THEN "UnsupportedAttribute"
    ELSE IF msg[1] = "unimplemented operation: " THEN "UnimplementedOperator"
    ELSE "Other"

----------------------------------------------------------------------------
(* Claims.                                                                 *)

\* The state after op.eval(inputs) of an operator of this kind.
Evaluated(kind) == call = "eval" /\ IsKind(kind)

\* How many entries of s equal v.
Count(s, v) == Cardinality({i \in 1..Len(s) : s[i] = v})

\* dims with every -1 replaced by q.
Resolve(dims, q) == [i \in 1..Len(dims) |-> IF dims[i] = -1 THEN q ELSE dims[i]]

\* The shape of a tensor read as a list of i32.
ShapeList(t) == [i \in 1..Len(t.shape) |-> AsI32(t.shape[i])]

\* Reshape was evaluated on an f32 tensor and an i32 dims vector.
ReshapeCase ==
    /\ Evaluated("Reshape")
    /\ IsF32(inputs[1])
    /\ IsI32(inputs[2])

\* C1: OpBuilder.build of a node whose op name is not registered returns Ok
\* with an UnimplementedOp carrying that name, and eval of that operator, for
\* any inputs, returns an error whose message contains the name.
C1_UnknownOpBuildsUnimplemented ==
    /\ (call = "build" /\ inputs[1].op \notin ArrayOpNames) =>
            /\ IsOk(op)
            /\ op.val.kind = "Unimplemented"
            /\ op.val.name = inputs[1].op
    /\ (call = "eval" /\ IsOk(op) /\ op.val.name \notin ArrayOpNames) =>
            /\ IsErr(result)
            /\ Contains(result.msg, op.val.name)
            /\ ErrorKind(result.msg) = "UnimplementedOperator"

\* C1 witness: an unregistered name was built and evaluated on a tensor.
C1_Witness ==
    /\ Evaluated("Unimplemented")
    /\ op.val.name = "FancyOp"
    /\ Len(inputs) = 1
    /\ IsErr(result)

\* C2: evaluating a Placeholder returns an error outcome to the caller, for
\* any inputs (it does not abort).
C2_PlaceholderEvalReturnsError ==
    Evaluated("Placeholder") => IsErr(result)

\* C3: with exactly one -1 in dims, a Reshape that returns an output returns
\* exactly one tensor whose shape is dims with the -1 replaced by
\* element_count / (product of the other dims), holding the elements of the
\* input in the same row-major order; and it does return that output
\* whenever the other dims are positive and their product divides the count.
C3_ReshapeResolvesMinusOne ==
    (ReshapeCase /\ Count(inputs[2].data, -1) = 1) =>
        LET dims == inputs[2].data
            n == Len(inputs[1].data)
            prod == Product(SelectSeq(dims, LAMBDA a : a # -1))
        IN  /\ IsOk(result) =>
                /\ Len(result.val) = 1
                /\ \E q \in 0..n :
                      /\ q * prod = n
                      /\ ShapeList(result.val[1]) = Resolve(dims, q)
                /\ result.val[1].data = inputs[1].data
                /\ result.val[1].dtype = "F32"
            /\ (prod > 0 /\ (\A i \in 1..Len(dims) : dims[i] # -1 => dims[i] > 0)
                    /\ n % prod = 0) => IsOk(result)

\* C3 witness: a tensor of four elements reshaped with dims [2, -1] to [2, 2].
C3_Witness ==
    /\ ReshapeCase
    /\ inputs[2].data = <<2, -1>>
    /\ Len(inputs[1].data) = 4
    /\ IsOk(result)
    /\ result.val[1].shape = <<2, 2>>

\* C4: Reshape does not succeed on a dims vector with more than one -1 (the
\* claim: it fails, with UnsupportedAttribute), whatever the input tensor.
C4_ReshapeRejectsSeveralMinusOnes ==
    (ReshapeCase /\ Count(inputs[2].data, -1) > 1) => IsErr(result)

\* No value of a -1 entry makes the product of dims the element count n.
ProductMismatch(dims, n) ==
    \A q \in 0..n : Product(Resolve(dims, q)) # n

\* C5: Reshape fails with a ShapeMismatch error whenever the product of the
\* requested dims differs from the element count of the input, also when one
\* dim is -1 and the count is not a multiple of the product of the others.
C5_ReshapeMismatchIsShapeError ==
    (ReshapeCase /\ Count(inputs[2].data, -1) <= 1
        /\ ProductMismatch(inputs[2].data, Len(inputs[1].data))) =>
            /\ IsErr(result)
            /\ ErrorKind(result.msg) = "ShapeMismatch"

\* C6: for every f32 tensor x, Shape.eval(x) succeeds and Reshape.eval of x
\* with that output as dims succeeds and returns x itself (same variant,
\* shape and elements).
C6_ReshapeToOwnShapeIsIdentity ==
    /\ (stage = 1 /\ IsKind("Shape") /\ IsF32(feed.x)) => IsOk(result)
    /\ (stage = 2 /\ IsKind("Reshape")) =>
            /\ inputs[1] = feed.x
            /\ result = Ok(<<feed.x>>)

\* C6 witness: the round trip has run on a tensor of shape [1, 2].
C6_Witness ==
    /\ stage = 2
    /\ IsKind("Reshape")
    /\ feed.x.shape = <<1, 2>>
    /\ inputs[2].data = <<1, 2>>
    /\ IsOk(result)

\* The round trip is on an f32 tensor and one position k with 0 <= k <= rank.
OnePositionCase ==
    /\ IsF32(feed.x)
    /\ Len(feed.ks) = 1
    /\ feed.ks[1] >= 0
    /\ feed.ks[1] <= Len(feed.x.shape)

\* C7: for every f32 tensor x and position k with 0 <= k <= rank(x),
\* ExpandDims(x, [k]) succeeds and Squeeze with squeeze_dims = [k] of its
\* output succeeds and returns x itself.
C7_SqueezeUndoesExpandDims ==
    /\ (stage = 1 /\ IsKind("ExpandDims") /\ OnePositionCase) => IsOk(result)
    /\ (stage = 2 /\ IsKind("Squeeze") /\ OnePositionCase) =>
            /\ op.val.dims = feed.ks
            /\ result = Ok(<<feed.x>>)

\* C7 witness: the round trip has run at the last position of a [2, 2] tensor.
C7_Witness ==
    /\ stage = 2
    /\ IsKind("Squeeze")
    /\ feed.x.shape = <<2, 2>>
    /\ feed.ks = <<2>>
    /\ inputs[1].shape = <<2, 2, 1>>
    /\ IsOk(result)

\* C8: Identity returns what it is given: eval returns its input list,
\* infer_forward its single input descriptor and infer_backward its single
\* output descriptor.
C8_IdentityReturnsItsInput ==
    /\ Evaluated("Identity") => result = Ok(inputs)
    /\ (call = "infer_forward" /\ IsKind("Identity") /\ Len(inputs) = 1) =>
            /\ IsOk(result)
            /\ Len(result.val) = 1
            /\ result.val[1] = inputs[1]
    /\ (call = "infer_backward" /\ IsKind("Identity") /\ Len(inputs) = 1) =>
            /\ IsOk(result)
            /\ Len(result.val) = 1
            /\ result.val[1] = inputs[1]

\* C8 witness: forward inference ran on a descriptor that knows its value.
C8_Witness ==
    /\ call = "infer_forward"
    /\ IsKind("Identity")
    /\ Len(inputs) = 1
    /\ inputs[1].value.only
    /\ ~inputs[1].shape.open
    /\ IsOk(result)

\* The one output Shape.eval is to return for x: a 1-D i32 tensor of length
\* rank(x) holding the dimensions of x.
ShapeOutput(x) == Ok(<<Tensor("I32", <<Len(x.shape)>>, x.shape)>>)

\* C9 as claimed: Shape.eval on a tensor x, of any element type, returns
\* exactly one output, the 1-D i32 tensor of the dimensions of x.
C9_ShapeEvalOfAnyTensor ==
    (Evaluated("Shape") /\ Len(inputs) = 1) => result = ShapeOutput(inputs[1])

\* C9 as amended: Shape.eval on an f32 tensor x returns exactly one output,
\* the 1-D i32 tensor of length rank(x) whose i-th element is x.shape()[i];
\* on a tensor of another element type it returns an error.
C9_ShapeEvalOfF32Tensor ==
    (Evaluated("Shape") /\ Len(inputs) = 1) =>
        IF IsF32(inputs[1]) THEN result = ShapeOutput(inputs[1])
        ELSE IsErr(result) /\ ErrorKind(result.msg) = "TypeMismatch"

\* C9 witness: Shape was evaluated on an f32 tensor of shape [2, 1].
C9_Witness ==
    /\ Evaluated("Shape")
    /\ Len(inputs) = 1
    /\ inputs[1].dtype = "F32"
    /\ inputs[1].shape = <<2, 1>>
    /\ IsOk(result)
    /\ result.val[1].data = <<2, 1>>

\* C10: a Squeeze whose squeeze_dims holds a negative axis fails in eval with
\* an UnsupportedAttribute error on every f32 input, whatever other positions
\* the attribute lists.
C10_SqueezeNegativeAxisIsError ==
    (Evaluated("Squeeze") /\ Len(inputs) = 1 /\ IsF32(inputs[1])
        /\ \E i \in 1..Len(op.val.dims) : op.val.dims[i] < 0) =>
            /\ IsErr(result)
            /\ ErrorKind(result.msg) = "UnsupportedAttribute"

\* A position listed in squeeze_dims that lies beyond the rank of x or on an
\* axis of x whose size is not 1.
BadSqueezePosition(dims, x) ==
    \E i \in 1..Len(dims) :
        /\ dims[i] >= 0
        /\ \/ dims[i] >= Len(x.shape)
           \/ x.shape[dims[i] + 1] # 1

\* C11: when a position of squeeze_dims refers to an axis whose size is not 1,
\* or to a position beyond the rank of the input, Squeeze.eval returns an
\* error (and so no output with that axis dropped).
C11_SqueezeOnlySizeOneAxes ==
    (Evaluated("Squeeze") /\ Len(inputs) = 1 /\ IsF32(inputs[1])
        /\ BadSqueezePosition(op.val.dims, inputs[1])) => IsErr(result)

\* Vec::sort: the list in ascending order.
RECURSIVE SortAsc(_)
SortAsc(s) ==
    IF s = <<>> THEN <<>>
    ELSE LET d == SortDesc(s) IN SortAsc(Tail(d)) \o <<Head(d)>>

\* ExpandDims was evaluated on an f32 tensor and an i32 axes vector.
ExpandDimsCase ==
    /\ Evaluated("ExpandDims")
    /\ IsF32(inputs[1])
    /\ IsI32(inputs[2])

\* C12: ExpandDims.eval inserts the size-1 axes in ascending order of
\* position: for a list of non-negative axes the output has the shape obtained
\* by inserting at the sorted positions (so every permutation of the list
\* gives the same shape); any negative axis yields an error.
C12_ExpandDimsInsertsInAscendingOrder ==
    ExpandDimsCase =>
        LET dims == inputs[2].data
            sorted == ExpandShape(inputs[1].shape, SortAsc(dims))
        IN  /\ ((\A i \in 1..Len(dims) : dims[i] >= 0) /\ IsOk(sorted)) =>
                    /\ IsOk(result)
                    /\ result.val[1].shape = sorted.val
            /\ (\E i \in 1..Len(dims) : dims[i] < 0) => IsErr(result)

\* An input of the evaluated operator has an element type the operator does
\* not support: a data input that is not f32, or a dims / axis input that is
\* not i32.
UnsupportedInputType ==
    \/ /\ Evaluated("ConcatV2")
       /\ Len(inputs) = op.val.n + 1
       /\ \/ ~IsI32(inputs[op.val.n + 1])
          \/ \E i \in 1..op.val.n : ~IsF32(inputs[i])
    \/ /\ Evaluated("ExpandDims") \/ Evaluated("Reshape")
       /\ ~IsF32(inputs[1]) \/ ~IsI32(inputs[2])
    \/ /\ Evaluated("Shape") \/ Evaluated("Squeeze")
       /\ Len(inputs) = 1
       /\ ~IsF32(inputs[1])

\* C13: eval of ConcatV2, ExpandDims, Reshape, Shape and Squeeze returns a
\* TypeMismatch error, and does not abort, when one of its inputs has an
\* element type the operator does not support.
C13_UnsupportedTypeIsTypeMismatch ==
    UnsupportedInputType =>
        /\ IsErr(result)
        /\ ErrorKind(result.msg) = "TypeMismatch"

----------------------------------------------------------------------------
(* The pooling tests (conform/tests/ops_nn_pools.rs).  The generator is    *)
(* the test's; the pooling operators are not part of the sources at hand   *)
(* and are modelled by the windows the specification describes.            *)

\* The bounds of the generated images and kernels, in the place of the
\* test's img_and_pool(32, 32, 5, 16, 16).
PoolMaxImg == 5
PoolMaxChannels == 3
PoolMaxKernel == 4

Min(a, b) == IF a < b THEN a ELSE b
Max(a, b) == IF a > b THEN a ELSE b

\* A proptest range a..b: a <= x < b.
Range(a, b) == a..(b - 1)

PoolCase(ih, iw, ic, kh, kw, padding, stride) ==
    [i |-> Tensor("F32", <<1, ih, iw, ic>>, Fill(ih * iw * ic)),
     k |-> <<kh, kw>>, padding |-> padding, stride |-> stride]

\* Mutant of ImgAndPool: the kernel is drawn whatever the size of the image.
ImgAndPool_AnyKernel(ih, iw, ic, kh, kw) ==
    UNION {
      UNION {
        {PoolCase(h, w, c, k0, k1, padding, stride) :
            padding \in {"VALID", "SAME"},
            stride \in Range(1, Max(Min(k0, k1), 2))} :
        k0 \in Range(1, Max(kh, 2)),
        k1 \in Range(1, Max(kw, 2))} :
      h \in Range(1, ih), w \in Range(1, iw), c \in Range(1, ic)}

\* img_and_pool: the image [1, ih, iw, ic], a kernel no larger than the
\* image, the padding and a stride below the smaller side of the kernel.
ImgAndPool(ih, iw, ic, kh, kw) ==
    UNION {
      UNION {
        {PoolCase(h, w, c, k0, k1, padding, stride) :
            padding \in {"VALID", "SAME"},
            stride \in Range(1, Max(Min(k0, k1), 2))} :
        k0 \in Range(1, Max(Min(kh, h + 1), 2)),
        k1 \in Range(1, Max(Min(kw, w + 1), 2))} :
      h \in Range(1, ih), w \in Range(1, iw), c \in Range(1, ic)}

\* The windows of size k laid over an axis of size n every stride steps:
\* VALID keeps the windows that lie inside the axis, SAME pads the axis so
\* that every step that starts inside it has its window.
PoolWindows(n, k, stride, padding) ==
    IF padding = "VALID"
    THEN {o \in 0..n : o % stride = 0 /\ o + k <= n}
    ELSE {o \in 0..n : o % stride = 0 /\ o < n}

\* The shape MaxPool and AvgPool give an [N, H, W, C] input.
PoolShape(c) ==
    <<c.i.shape[1],
      Cardinality(PoolWindows(c.i.shape[2], c.k[1], c.stride, c.padding)),
      Cardinality(PoolWindows(c.i.shape[3], c.k[2], c.stride, c.padding)),
      c.i.shape[4]>>

\* One case of the maxpool / avgpool test: the generated input is run
\* through the pooling node.
PoolTest(name) ==
    /\ call = "new"
    /\ \E c \in ImgAndPool(PoolMaxImg, PoolMaxImg, PoolMaxChannels,
                           PoolMaxKernel, PoolMaxKernel) :
        /\ inputs' = <<c>>
        /\ result' = Ok(PoolShape(c))
    /\ call' = name
    /\ UNCHANGED <<op, feed, stage, shared, cli>>

MaxPoolTest == PoolTest("MaxPool")

AvgPoolTest == PoolTest("AvgPool")

NextPool ==
    \/ MaxPoolTest
    \/ AvgPoolTest
    \/ Discard

SpecPool == Init /\ [][NextPool]_vars

\* a / b rounded up.
CeilDiv(a, b) == (a + b - 1) \div b

----------------------------------------------------------------------------
(* The tensor type itself (matrix.rs): comparison, construction, accessors. *)
(* f32 elements are small integers and the arithmetic on them is exact: the *)
(* comparison |b - a| <= dev / 10 is made on the squares, multiplied by     *)
(* n^3, so that neither the division nor the square root is needed.        *)

\* The longest tensor handed to close_enough.
CloseLen == 2

RECURSIVE Sum(_)
Sum(s) == IF s = <<>> THEN 0 ELSE Head(s) + Sum(Tail(s))

Abs(a) == IF a < 0 THEN -a ELSE a

\* Matrix::to_f32: the elements of an I32 or F32 tensor as f32; a panic
\* (unimplemented!) for every other variant.
ToF32(t) ==
    IF t.dtype \in {"I32", "F32"} THEN Ok(Tensor("F32", t.shape, t.data))
    ELSE Panic(<<"not yet implemented">>)

\* n^3 times the square of dev, with n the number of elements, avg center(ma)
\* / n and dev = sqrt(sum((a - avg)^2) / n).
DevSquared(ma, center) ==
    LET n == Len(ma)
    IN  n * Sum([i \in 1..n |-> (n * ma[i] - center) * (n * ma[i] - center)])

\* |b - a| <= dev / 10 for the elements a of ma and b of mb at position i.
Within(ma, mb, i, center) ==
    LET n == Len(ma)
    IN  100 * n * n * n * (mb[i] - ma[i]) * (mb[i] - ma[i]) <= DevSquared(ma, center)

\* Matrix::close_enough: avg is the mean of the absolute values of the
\* elements of self, dev the deviation of the elements around avg.
CloseEnough(self, other) ==
    IF ~IsOk(ToF32(self)) THEN ToF32(self)
    ELSE IF ~IsOk(ToF32(other)) THEN ToF32(other)
    ELSE LET ma == ToF32(self).val
             mb == ToF32(other).val
             avg == Sum([i \in 1..Len(ma.data) |-> Abs(ma.data[i])])
         IN  Ok(/\ ma.shape = mb.shape
                /\ \A i \in 1..Min(Len(ma.data), Len(mb.data)) :
                        Within(ma.data, mb.data, i, avg))

\* The elements of the compared tensors.
CloseVals == {-5, -4, 0, 5}

\* The tensors handed to close_enough: vectors, a row, and a tensor of a
\* variant that has no cast to f32.
CloseTensors ==
    {Tensor(dt, <<Len(d)>>, d) : dt \in {"F32", "I32"}, d \in SeqUpTo(CloseVals, CloseLen)}
    \cup {Tensor("F32", <<1, Len(d)>>, d) : d \in SeqUpTo(CloseVals, CloseLen)}
    \cup {Tensor("F64", <<1>>, <<5>>)}

\* The six variants of Matrix.
Variants == {"F32", "F64", "I32", "I8", "U8", "String"}

\* Matrix::shape: the dimensions of an I32, F32 or U8 tensor; a panic
\* (unimplemented!) for every other variant.
MatrixShape(t) ==
    IF t.dtype \in {"I32", "F32", "U8"} THEN Ok(t.shape)
    ELSE Panic(<<"not yet implemented">>)

\* Matrix::datatype: the DataType of an I32, F32 or U8 tensor; a panic
\* (unimplemented!) for every other variant.
MatrixDatatype(t) ==
    IF t.dtype = "I32" THEN Ok("DT_INT32")
    ELSE IF t.dtype = "F32" THEN Ok("DT_FLOAT")
    ELSE IF t.dtype = "U8" THEN Ok("DT_UINT8")
    ELSE Panic(<<"not yet implemented">>)

\* std::mem::size_of of the element types from_content is used with.
SizeOf(ty) == IF ty = "u8" THEN 1 ELSE 4

\* The variant Matrix::from gives an array of this element type.
VariantOf(ty) ==
    IF ty = "f32" THEN "F32" ELSE IF ty = "f64" THEN "F64"
    ELSE IF ty = "i32" THEN "I32" ELSE IF ty = "i8" THEN "I8" ELSE "U8"

\* The element read from consecutive smaller ones, lowest first (an f32
\* element is kept as the word of its bits).
RECURSIVE Word(_)
Word(bytes) == IF bytes = <<>> THEN 0 ELSE Head(bytes) + 256 * Word(Tail(bytes))

\* Mutant of FromContent: the elements are laid out without the size check.
FromContent_Unchecked(T, V, dims, content) ==
    LET count == (Len(content) * SizeOf(V)) \div SizeOf(T)
        step == SizeOf(T) \div SizeOf(V)
        value == [j \in 1..count |-> Word(SubSeq(content, (j - 1) * step + 1, j * step))]
    IN  Ok(Tensor(VariantOf(T), dims, value))

\* Matrix::from_content::<T, V>: the content read as elements of T, as many
\* as fit, then into_shape(dims).
FromContent(T, V, dims, content) ==
    LET count == (Len(content) * SizeOf(V)) \div SizeOf(T)
        step == SizeOf(T) \div SizeOf(V)
        value == [j \in 1..count |-> Word(SubSeq(content, (j - 1) * step + 1, j * step))]
    IN  IntoShape(Tensor(VariantOf(T), <<count>>, value), dims)

\* Matrix::from_pb.
FromPb(t) ==
    LET dims == [i \in 1..Len(t.dims) |-> AsUsize(t.dims[i])]
        rank == Len(dims)
        mat == IF t.content # <<>>
               THEN (IF t.dtype = "DT_FLOAT" THEN FromContent("f32", "u8", dims, t.content)
                     ELSE IF t.dtype = "DT_INT32"
                          THEN FromContent("i32", "u8", dims, t.content)
                     ELSE Panic(<<"not yet implemented">>))
               ELSE (IF t.dtype = "DT_INT32" THEN FromContent("i32", "i32", dims, t.int_val)
                     ELSE IF t.dtype = "DT_FLOAT"
                          THEN FromContent("f32", "f32", dims, t.float_val)
                     ELSE Panic(<<"not yet implemented">>))
    IN  IF ~IsOk(mat) THEN mat
        ELSE IF ~IsOk(MatrixShape(mat.val)) THEN MatrixShape(mat.val)
        ELSE IF rank # Len(MatrixShape(mat.val).val)
             THEN Panic(<<"assertion failed: (left == right)">>)
        ELSE mat

\* Array::from_shape_vec(shape, values) of the constructors f64s, f32s, i32s,
\* u8s and i8s.
Make(ty, shape, values) ==
    IF SizeChecked(shape) # SomeSize(Len(values)) THEN Err(ShapeErrorMsg)
    ELSE Ok(Tensor(VariantOf(ty), shape, values))

\* The longest packed content of a TensorProto, in bytes.
PbMaxBytes == 9

\* A byte buffer of this length.
Bytes(len) == [i \in 1..len |-> i % 3]

TensorProto(dt, dims, content, int_val, float_val) ==
    [dtype |-> dt, dims |-> dims, content |-> content, int_val |-> int_val,
     float_val |-> float_val]

\* The serialized tensors: a declared shape (an unknown dimension is -1),
\* and either a packed content or the typed lists.
TensorProtos ==
    {TensorProto(dt, dims, Bytes(len), <<>>, <<>>) :
        dt \in {"DT_FLOAT", "DT_INT32", "DT_DOUBLE"},
        dims \in SeqUpTo((-1)..MaxDim, MaxRank),
        len \in 1..PbMaxBytes}
    \cup {TensorProto(dt, dims, <<>>, Fill(k), Fill(l)) :
        dt \in {"DT_FLOAT", "DT_INT32", "DT_DOUBLE"},
        dims \in SeqUpTo((-1)..MaxDim, MaxRank),
        k \in 0..MaxRank, l \in 0..MaxRank}

\* The tensors of every variant.
VariantTensors == {Tensor(dt, sh, Fill(Product(sh))) : dt \in Variants, sh \in Shapes}

FromPbCall ==
    /\ call = "new"
    /\ \E t \in TensorProtos :
        /\ inputs' = <<t>>
        /\ result' = FromPb(t)
    /\ call' = "from_pb"
    /\ UNCHANGED <<op, feed, stage, shared, cli>>

\* Matrix::f64s, f32s, i32s, u8s or i8s (shape, values).
MakeCall ==
    /\ call = "new"
    /\ \E ty \in {"f64", "f32", "i32", "u8", "i8"}, sh \in Shapes, k \in 0..(MaxDim * MaxRank) :
        /\ inputs' = <<ty, sh, Fill(k)>>
        /\ result' = Make(ty, sh, Fill(k))
    /\ call' = "make"
    /\ UNCHANGED <<op, feed, stage, shared, cli>>

ShapeCall ==
    /\ call = "new"
    /\ \E t \in VariantTensors :
        /\ inputs' = <<t>>
        /\ result' = MatrixShape(t)
    /\ call' = "shape"
    /\ UNCHANGED <<op, feed, stage, shared, cli>>

DatatypeCall ==
    /\ call = "new"
    /\ \E t \in VariantTensors :
        /\ inputs' = <<t>>
        /\ result' = MatrixDatatype(t)
    /\ call' = "datatype"
    /\ UNCHANGED <<op, feed, stage, shared, cli>>

\* reference.close_enough(other).
CloseEnoughCall ==
    /\ call = "new"
    /\ \E self \in CloseTensors, other \in CloseTensors :
        /\ inputs' = <<self, other>>
        /\ result' = CloseEnough(self, other)
    /\ call' = "close_enough"
    /\ UNCHANGED <<op, feed, stage, shared, cli>>

NextMatrix ==
    \/ CloseEnoughCall
    \/ FromPbCall
    \/ MakeCall
    \/ ShapeCall
    \/ DatatypeCall
    \/ Discard

SpecMatrix == Init /\ [][NextMatrix]_vars

\* Both compared tensors have a cast to f32.
CloseCase ==
    /\ call = "close_enough"
    /\ inputs[1].dtype \in {"I32", "F32"}
    /\ inputs[2].dtype \in {"I32", "F32"}

DecodedCount(t) ==
    IF t.content # <<>> THEN Len(t.content) \div SizeOf("f32")
    ELSE IF t.dtype = "DT_INT32" THEN Len(t.int_val)
    ELSE Len(t.float_val)

\* C16: every tensor that construction returns successfully has as many
\* elements as the product of its shape; building from (shape, values), or
\* from a serialized payload (packed bytes or typed list) of a type the
\* decoder reads, returns an error whenever the number of elements differs
\* from the product of the declared dims.
C16_ConstructionKeepsElementCount ==
    /\ (call \in {"from_pb", "make"} /\ IsOk(result)) =>
            Len(result.val.data) = Product(result.val.shape)
    /\ (call = "make" /\ Len(inputs[3]) # Product(inputs[2])) => IsErr(result)
    /\ (call = "from_pb" /\ inputs[1].dtype \in {"DT_FLOAT", "DT_INT32"}
            /\ DecodedCount(inputs[1]) # Product(inputs[1].dims)) => IsErr(result)

\* C16 witness: nine packed bytes declared as a [2] f32 tensor: two whole
\* words are decoded, the ninth byte is left, and the tensor is returned.
C16_Witness ==
    /\ call = "from_pb"
    /\ inputs[1].dtype = "DT_FLOAT"
    /\ Len(inputs[1].content) = 9
    /\ inputs[1].dims = <<2>>
    /\ IsOk(result)
    /\ result.val.shape = <<2>>
    /\ Len(result.val.data) = 2

\* The element type that matches the tag of a tensor.
TypeOfVariant(v) ==
    IF v = "F32" THEN "DT_FLOAT" ELSE IF v = "F64" THEN "DT_DOUBLE"
    ELSE IF v = "I32" THEN "DT_INT32" ELSE IF v = "I8" THEN "DT_INT8"
    ELSE IF v = "U8" THEN "DT_UINT8" ELSE "DT_STRING"

\* C17: for a tensor of each of the six variants (f32, f64, i32, i8, u8,
\* byte-string) shape() returns its dimensions and datatype() the element
\* type matching its tag; neither aborts.
C17_AccessorsCoverEveryVariant ==
    /\ call = "shape" => (IsOk(result) /\ result.val = inputs[1].shape)
    /\ call = "datatype" =>
            (IsOk(result) /\ result.val = TypeOfVariant(inputs[1].dtype))

----------------------------------------------------------------------------
(* The command-line driver (cli/src/main.rs): main, handle, and the walk   *)
(* of the execution plan in handle_profile.  The model's nodes, its plan   *)
(* (eval_order) and compute_one belong to the library crate's root, which  *)
(* is not among the sources at hand; they follow the specification.        *)

\* The number of nodes of the loaded model.
MaxNodes == 3

NodeIds == 1..MaxNodes

\* The input references of one node: at most two, of different nodes.
InputLists ==
    {ins \in SeqUpTo(NodeIds, 2) : \A i, j \in 1..Len(ins) : i # j => ins[i] # ins[j]}

\* The models: every node with its input references, cyclic ones included.
Graphs == [NodeIds -> InputLists]

\* The node the plan is computed for (params.output).
Target == 1

\* A node without inputs is a Placeholder, fed before the walk.
OpName(g, n) == IF g[n] = <<>> THEN "Placeholder" ELSE "Op"

\* The depth-first post-order traversal of the specification: a node is
\* emitted once all its inputs, in their declared order, are; a node met
\* again on the way down closes a cycle.
RECURSIVE Visit(_, _, _, _)
RECURSIVE VisitInputs(_, _, _, _)
Visit(g, n, st, stack) ==
    IF st.cyclic THEN st
    ELSE IF n \in stack THEN [st EXCEPT !.cyclic = TRUE]
    ELSE IF Contains(st.order, n) THEN st
    ELSE LET after == VisitInputs(g, g[n], st, stack \cup {n})
         IN  IF after.cyclic THEN after
             ELSE [after EXCEPT !.order = Append(@, n)]

VisitInputs(g, ins, st, stack) ==
    IF ins = <<>> THEN st
    ELSE VisitInputs(g, Tail(ins), Visit(g, Head(ins), st, stack), stack)

\* Node::eval_order: the execution plan for the target, or CyclicGraph.
EvalOrder(g, target) ==
    LET st == Visit(g, target, [order |-> <<>>, cyclic |-> FALSE], {})
    IN  IF st.cyclic THEN Err(<<"CyclicGraph">>) ELSE Ok(st.order)

\* compute_one: fails unless every input node has its outputs; otherwise the
\* outcome is that of the node's operator.
ComputeOne(g, n, visited, eval) ==
    IF \E i \in 1..Len(g[n]) : g[n][i] \notin visited
    THEN Err(<<"unsatisfied dependency">>)
    ELSE eval

\* The outcomes an operator's eval can have.
EvalOutcomes == {Ok(<<>>), Err(<<"eval">>), Panic(<<"eval">>)}

\* Mutant of PlanNode: the plan is walked from its end.
PlanNode_Backwards(plan, pos) == plan[Len(plan) - pos]

\* `for n in plan`: the node the loop is at after pos iterations.
PlanNode(plan, pos) == plan[pos + 1]

\* Mutant of ExitCode: the error is logged and main returns.
ExitCode_NoExit(outcome) ==
    IF IsPanic(outcome) THEN 101 ELSE 0

\* main: exit(1) when handle returned an error, a normal return (code 0)
\* otherwise; a panic in handle leaves with the runtime's code 101.
ExitCode(outcome) ==
    IF IsErr(outcome) THEN 1
    ELSE IF IsPanic(outcome) THEN 101
    ELSE 0

\* The subcommands handle can be given.
Commands == {"compare", "profile", "profile -n 2", "profile -n x", "other"}

\* handle returns (or unwinds) with this outcome.
Handled(outcome) == [cli EXCEPT !.pc = "handled", !.outcome = outcome]

\* parse: the model is loaded and the size read, or an error is returned.
CliParse ==
    /\ cli.pc = "start"
    /\ \/ \E e \in {"model loading", "Size should be formatted as {size}x{size}x{type}."} :
            cli' = Handled(Err(<<e>>))
       \/ \E g \in Graphs, c \in Commands :
            cli' = [cli EXCEPT !.pc = "parsed", !.graph = g, !.cmd = c]
    /\ UNCHANGED <<op, call, inputs, result, feed, stage, shared>>

\* handle after parse: the subcommand is dispatched; profile reads its
\* iterations and computes the plan.
CliHandle ==
    /\ cli.pc = "parsed"
    /\ cli' =
        IF cli.cmd = "compare"
        THEN Handled(Err(<<"Comparison requires the tensorflow feature.">>))
        ELSE IF cli.cmd = "profile -n x"
        THEN Handled(Err(<<"invalid digit found in string">>))
        ELSE IF cli.cmd \notin {"profile", "profile -n 2"}
        THEN Handled(Err(<<"Unknown subcommand ", cli.cmd>>))
        ELSE LET plan == EvalOrder(cli.graph, Target)
             IN  IF IsOk(plan) THEN [cli EXCEPT !.pc = "walk", !.plan = plan]
                 ELSE Handled(plan)
    /\ UNCHANGED <<op, call, inputs, result, feed, stage, shared>>

\* One iteration of the loop of handle_profile over the plan: a Placeholder
\* is skipped, any other node is computed.
ProfileStep ==
    /\ cli.pc = "walk"
    /\ cli.pos < Len(cli.plan.val)
    /\ LET n == PlanNode(cli.plan.val, cli.pos)
           next == [cli EXCEPT !.pos = @ + 1, !.visited = @ \cup {n}]
       IN  IF OpName(cli.graph, n) = "Placeholder" THEN cli' = next
           ELSE \E eval \in EvalOutcomes :
                  LET r == ComputeOne(cli.graph, n, cli.visited, eval)
                  IN  cli' = IF IsOk(r) THEN next
                             ELSE [next EXCEPT !.pc = "handled", !.outcome = r]
    /\ UNCHANGED <<op, call, inputs, result, feed, stage, shared>>

\* The loop is over: handle_profile returns Ok(()).
ProfileDone ==
    /\ cli.pc = "walk"
    /\ cli.pos = Len(cli.plan.val)
    /\ cli' = Handled(Ok(<<>>))
    /\ UNCHANGED <<op, call, inputs, result, feed, stage, shared>>

\* main after handle: the process ends.
MainExit ==
    /\ cli.pc = "handled"
    /\ cli' = [cli EXCEPT !.pc = "exited", !.exit = ExitCode(cli.outcome)]
    /\ UNCHANGED <<op, call, inputs, result, feed, stage, shared>>

NextCli ==
    \/ CliParse
    \/ CliHandle
    \/ ProfileStep
    \/ ProfileDone
    \/ MainExit

SpecCli == Init /\ [][NextCli]_vars

\* The nodes n transitively depends on: its inputs, and theirs.
RECURSIVE DepsWithin(_, _, _)
DepsWithin(g, acc, k) ==
    IF k = 0 THEN acc
    ELSE DepsWithin(g, acc \cup UNION {{g[m][i] : i \in 1..Len(g[m])} : m \in acc}, k - 1)

TransitiveDeps(g, n) == DepsWithin(g, {g[n][i] : i \in 1..Len(g[n])}, MaxNodes)

\* C18: the execution plan computed for the target holds no node id twice
\* and lists every node after all the nodes it transitively depends on; and
\* when the walk of the plan reaches a node, all its predecessors have been
\* visited.
C18_PlanRespectsDependencies ==
    IsOk(cli.plan) =>
        LET plan == cli.plan.val
            g == cli.graph
        IN  /\ \A i, j \in 1..Len(plan) : i # j => plan[i] # plan[j]
            /\ \A k \in 1..Len(plan) :
                  \A m \in TransitiveDeps(g, plan[k]) :
                      \E j \in 1..(k - 1) : plan[j] = m
            /\ (cli.pc = "walk" /\ cli.pos < Len(plan)) =>
                  TransitiveDeps(g, PlanNode(plan, cli.pos)) \subseteq cli.visited
            /\ ~(IsErr(cli.outcome) /\ cli.outcome.msg = <<"unsatisfied dependency">>)

\* C18 witness: the walk of a plan of three nodes is at its last node, which
\* reads both others, one of them through the other as well.
C18_Witness ==
    /\ cli.pc = "walk"
    /\ cli.graph[1] = <<2, 3>>
    /\ cli.graph[2] = <<3>>
    /\ cli.graph[3] = <<>>
    /\ cli.plan = Ok(<<3, 2, 1>>)
    /\ cli.pos = 2
    /\ cli.visited = {2, 3}

\* C19: the process exits with code 1 whenever handle returns an error (a
\* failed parse, an unknown subcommand, unreadable iterations, a plan that
\* cannot be computed, a failed evaluation in profile), and with code 0
\* exactly when handle returns Ok.
C19_ExitCodeFollowsHandle ==
    cli.pc = "exited" =>
        /\ IsErr(cli.outcome) => cli.exit = 1
        /\ cli.exit = 0 <=> IsOk(cli.outcome)
        /\ cli.cmd \notin {"profile", "profile -n 2"} => cli.exit = 1

\* C19 witness: a node of the plan failed in profile and the process has
\* ended with code 1.
C19_Witness ==
    /\ cli.pc = "exited"
    /\ cli.cmd = "profile"
    /\ cli.pos = 2
    /\ cli.outcome = Err(<<"eval">>)
    /\ cli.exit = 1

----------------------------------------------------------------------------
(* Inputs (ops/mod.rs): an operator receives each input either owned or    *)
(* through a reference-counted handle.  The tensors behind the handles are *)
(* the sequence shared; a handle is a position in it.                      *)

NoMatrix == Tensor("none", <<>>, <<>>)

\* Input::Owned(m).
Owned(m) == [kind |-> "Owned", h |-> 0, m |-> m]

\* Input::Shared(m), m the handle of a shared tensor.
Shared(h) == [kind |-> "Shared", h |-> h, m |-> NoMatrix]

\* Mutant of IntoMatrix: the tensor is taken out of the shared cell, which
\* is left empty.
IntoMatrix_Moved(input, store) ==
    IF input.kind = "Owned" THEN [m |-> input.m, store |-> store]
    ELSE [m |-> store[input.h],
          store |-> [store EXCEPT ![input.h] = Tensor(@.dtype, <<0>>, <<>>)]]

\* Input::into_matrix: an owned tensor is handed over, a shared one is
\* cloned.  The value is the matrix and the shared tensors afterwards.
IntoMatrix(input, store) ==
    IF input.kind = "Owned" THEN [m |-> input.m, store |-> store]
    ELSE [m |-> store[input.h], store |-> store]

\* Input::as_matrix and Deref: a borrow of the tensor.
AsMatrix(input, store) ==
    IF input.kind = "Owned" THEN input.m ELSE store[input.h]

\* result.into(): From<Matrix> for Input wraps each output as owned.
IntoInputs(r) ==
    IF IsOk(r) THEN Ok([i \in 1..Len(r.val) |-> Owned(r.val[i])]) ELSE r

\* Op::eval on inputs of which some are shared: the outcome and the shared
\* tensors afterwards.  Reshape and ExpandDims consume their first input
\* with into_matrix and borrow the second; Identity hands its inputs back;
\* every other operator borrows its inputs (as_f32s, as_i32s through Deref).
EvalInputs(o, ins, store) ==
    IF o.kind \in {"Reshape", "ExpandDims"}
    THEN LET data == IntoMatrix(ins[1], store)
             dims == AsMatrix(ins[2], data.store)
             r == IF o.kind = "Reshape"
                  THEN ReshapeEval(o, <<data.m, dims>>)
                  ELSE ExpandDimsEval(o, <<data.m, dims>>)
         IN  [result |-> IntoInputs(r), store |-> data.store]
    ELSE IF o.kind = "Identity"
    THEN [result |-> IdentityEval(o, ins), store |-> store]
    ELSE LET mats == [i \in 1..Len(ins) |-> AsMatrix(ins[i], store)]
             r == IF o.kind = "Squeeze" THEN SqueezeEval(o, mats)
                  ELSE IF o.kind = "Shape" THEN ShapeEval(o, mats)
                  ELSE IF o.kind = "ConcatV2" THEN ConcatV2Eval(o, mats)
                  ELSE IF o.kind = "Placeholder" THEN PlaceholderEval(o, mats)
                  ELSE UnimplementedEval(o, mats)
         IN  [result |-> IntoInputs(r), store |-> store]

\* The tensors an evaluation state holds behind handles: a data tensor of
\* two elements and a one-element i32 tensor (a dims, an axes or an axis
\* input).
SharedStores ==
    {<<x, d>> : x \in {t \in DataTensors : Len(t.data) = 2},
                d \in {t \in DimsTensors : Len(t.data) = 1}}

\* The inputs an operator can be handed: a handle of a shared tensor (the
\* same handle several times too) or an owned tensor.
InputChoices(store) == {Shared(h) : h \in DOMAIN store} \cup {Owned(BadDimsTensor)}

\* The largest number of inputs handed to an operator: ConcatV2 with N = 2.
MaxInputs == 3

InputVecs(store) == SeqUpTo(InputChoices(store), MaxInputs) \ {<<>>}

\* The evaluation state stores tensors behind handles.
ShareTensors ==
    /\ call = "new"
    /\ shared = <<>>
    /\ shared' \in SharedStores
    /\ UNCHANGED <<op, call, inputs, result, feed, stage, cli>>

\* Input::into_matrix on one input.
IntoMatrixCall ==
    /\ call = "new"
    /\ shared # <<>>
    /\ \E input \in InputChoices(shared) :
        LET r == IntoMatrix(input, shared)
        IN  /\ inputs' = <<input>>
            /\ result' = Ok(<<r.m>>)
            /\ shared' = r.store
    /\ call' = "into_matrix"
    /\ UNCHANGED <<op, feed, stage, cli>>

\* The data inputs of ConcatV2 have one rank.
OneRank(o, ins, store) ==
    \A i \in 1..Min(o.n, Len(ins)) :
        Len(AsMatrix(ins[i], store).shape) = Len(AsMatrix(ins[1], store).shape)

\* eval of the built operator on inputs resolved to handles.  Reshape and
\* ExpandDims are handed two inputs (args_2!), ConcatV2 data inputs of one
\* rank (the arrays ndarray::stack is defined on).
EvalShared ==
    /\ call = "build"
    /\ IsOk(op)
    /\ shared # <<>>
    /\ \E ins \in InputVecs(shared) :
        /\ op.val.kind \in {"Reshape", "ExpandDims"} => Len(ins) = 2
        /\ op.val.kind = "ConcatV2" => OneRank(op.val, ins, shared)
        /\ LET r == EvalInputs(op.val, ins, shared)
           IN  /\ inputs' = ins
               /\ result' = r.result
               /\ shared' = r.store
    /\ call' = "eval"
    /\ UNCHANGED <<op, feed, stage, cli>>

NextShared ==
    \/ ShareTensors
    \/ Build
    \/ IntoMatrixCall
    \/ EvalShared
    \/ Discard

SpecShared == Init /\ [][NextShared]_vars

\* The operators C20 names.
SharingOps == {"ExpandDims", "Reshape", "Squeeze", "Shape", "Identity", "ConcatV2"}

\* C20: no evaluation changes a shared tensor.  Input::into_matrix on a
\* shared input returns a copy of the tensor behind the handle and leaves
\* that tensor as it was, and over an eval of ExpandDims, Reshape, Squeeze,
\* Shape, Identity or ConcatV2 (of any operator, in fact) every tensor held
\* through a handle keeps its variant, its shape and its elements.
C20_SharedTensorsAreNotMutated ==
    [][/\ call' = "into_matrix" =>
            /\ shared' = shared
            /\ inputs'[1].kind = "Shared" => result'.val = <<shared[inputs'[1].h]>>
       /\ call' = "eval" => shared' = shared]_vars

\* C20 witness: Reshape has consumed a shared tensor of shape [1, 2] with a
\* shared dims input [2]; its output has shape [2] and the shared tensor
\* still has shape [1, 2].
C20_Witness ==
    /\ call = "eval"
    /\ IsKind("Reshape")
    /\ op.val.kind \in SharingOps
    /\ inputs = <<Shared(1), Shared(2)>>
    /\ shared = <<Tensor("F32", <<1, 2>>, <<1, 2>>), Tensor("I32", <<1>>, <<2>>)>>
    /\ IsOk(result)
    /\ result.val = <<Owned(Tensor("F32", <<2>>, <<1, 2>>))>>

----------------------------------------------------------------------------
(* Forward and backward inference of the array operators.  The macro       *)
(* try_infer_forward_concrete! (macros.rs) is not among the sources: the   *)
(* descriptors handed to Reshape, Squeeze and ExpandDims below never all   *)
(* carry a known value, so that the code after the macro is what runs.     *)

\* AShape::concretize.
Concretize(sh) ==
    IF sh.open THEN Err(<<"Impossible to concretize an open shape.">>)
    ELSE IF \E i \in 1..Len(sh.dims) : ~sh.dims[i].only
         THEN Err(<<"Impossible to concretize a shape with an unknown dimension.">>)
    ELSE Ok([i \in 1..Len(sh.dims) |-> sh.dims[i].v])

\* FromIterator<usize> for AShape: a closed shape of known dimensions.
ClosedFrom(s) == ClosedShape([i \in 1..Len(s) |-> OnlyDim(s[i])])

\* Placeholder::infer_forward.
PlaceholderInferForward(o, ins) ==
    Ok(<<ATensor(OnlyType(o.datatype), OpenShape(<<>>), AnyValue)>>)

\* Placeholder::infer_backward.
PlaceholderInferBackward(o, outs) ==
    Err(<<"Placeholder operation is a leaf, nothing to infer backwards.">>)

\* Reshape::infer_forward.  dims are concretized first; a concrete input
\* shape then hands its first dimension, shape[0], to true_dims.
ReshapeInferForward(o, ins) ==
    IF Len(ins) # 2 THEN Err(<<"Reshape operation only supports two inputs.">>)
    ELSE IF ~ins[2].value.only THEN Err(<<"Impossible to concretize an Any value.">>)
    ELSE IF ~IsI32(ins[2].value.v) THEN Err(<<"Expected a i32 matrix">>)
    ELSE LET dims == ins[2].value.v.data
             shape == Concretize(ins[1].shape)
         IN  IF IsOk(shape)
             THEN IF shape.val = <<>> THEN Panic(<<"index out of bounds">>)
                  ELSE LET td == TrueDims(dims, shape.val[1])
                       IN  IF ~IsOk(td) THEN td
                           ELSE Ok(<<ATensor(ins[1].datatype, ClosedFrom(td.val), AnyValue)>>)
             ELSE IF ~Contains(dims, -1)
             THEN Ok(<<ATensor(ins[1].datatype,
                               ClosedFrom([i \in 1..Len(dims) |-> AsUsize(dims[i])]),
                               AnyValue)>>)
             ELSE Err(<<"Can't infer the shape of the output for Reshape.">>)

\* Reshape::infer_backward.
ReshapeInferBackward(o, outs) ==
    IF Len(outs) # 1 THEN Err(<<"Reshape operation only supports one output.">>)
    ELSE Ok(<<ATensor(outs[1].datatype, OpenShape(<<>>), AnyValue),
              ATensor(OnlyType("DT_INT32"), OpenShape(<<>>), AnyValue)>>)

\* Shape::infer_forward.
ShapeInferForward(o, ins) ==
    IF Len(ins) # 1 THEN Err(<<"Shape operation only supports one input.">>)
    ELSE LET c == Concretize(ins[1].shape)
         IN  IF ~IsOk(c) THEN c
             ELSE LET shape == [i \in 1..Len(c.val) |-> AsI32(c.val[i])]
                      rank == Len(shape)
                  IN  Ok(<<ATensor(OnlyType("DT_INT32"), ClosedFrom(<<rank>>),
                                   OnlyValue(Tensor("I32", <<rank>>, shape)))>>)

\* Shape::infer_backward.
ShapeInferBackward(o, outs) ==
    IF Len(outs) # 1 THEN Err(<<"Shape operation only supports one output.">>)
    ELSE IF outs[1].value.only
    THEN LET v == outs[1].value.v
         IN  IF ~IsI32(v)
             THEN Err(<<"Shape operation should produce a 1-D integer tensor.">>)
             ELSE IF Len(v.shape) # 1 THEN Err(ShapeErrorMsg)
             ELSE Ok(<<ATensor(AnyType,
                               ClosedFrom([i \in 1..Len(v.data) |-> AsUsize(v.data[i])]),
                               AnyValue)>>)
    ELSE LET c == Concretize(outs[1].shape)
         IN  IF ~IsOk(c) THEN c
             ELSE IF Len(c.val) # 1
             THEN Err(<<"Shape operation should produce a 1-D integer tensor.">>)
             ELSE Ok(<<ATensor(AnyType, ClosedShape([i \in 1..c.val[1] |-> AnyDim]),
                               AnyValue)>>)

\* Squeeze::infer_forward.
SqueezeInferForward(o, ins) ==
    IF Len(ins) # 1 THEN Err(<<"Squeeze operation only supports one input.">>)
    ELSE LET c == Concretize(ins[1].shape)
         IN  IF IsOk(c)
             THEN LET sh == SqueezeShape(o.dims, c.val)
                  IN  IF ~IsOk(sh) THEN sh
                      ELSE Ok(<<ATensor(ins[1].datatype, ClosedFrom(sh.val), AnyValue)>>)
             ELSE Err(<<"Can't infer for Squeeze without a concrete shape.">>)

\* Squeeze::infer_backward.
SqueezeInferBackward(o, outs) ==
    IF Len(outs) # 1 THEN Err(<<"Squeeze operation only supports one output.">>)
    ELSE Ok(<<ATensor(outs[1].datatype, OpenShape(<<>>), AnyValue)>>)

\* ExpandDims::infer_forward.  The guard lets one input through, and the
\* code then reads inputs[1], the second: nothing after that read is reached.
ExpandDimsInferForward(o, ins) ==
    IF Len(ins) # 1 THEN Err(<<"ExpandDims operation only supports two inputs.">>)
    ELSE Panic(<<"index out of bounds">>)

\* ExpandDims::infer_backward.
ExpandDimsInferBackward(o, outs) ==
    IF Len(outs) # 1 THEN Err(<<"ExpandDims operation only supports one output.">>)
    ELSE Ok(<<ATensor(outs[1].datatype, OpenShape(<<>>), AnyValue)>>)

\* The operators of this module that implement inference.
InferKinds == {"ExpandDims", "Identity", "Placeholder", "Reshape", "Shape", "Squeeze"}

\* Op::infer_forward.
InferForward(o, ins) ==
    IF o.kind = "Identity" THEN IdentityInferForward(o, ins)
    ELSE IF o.kind = "Placeholder" THEN PlaceholderInferForward(o, ins)
    ELSE IF o.kind = "Reshape" THEN ReshapeInferForward(o, ins)
    ELSE IF o.kind = "Shape" THEN ShapeInferForward(o, ins)
    ELSE IF o.kind = "Squeeze" THEN SqueezeInferForward(o, ins)
    ELSE ExpandDimsInferForward(o, ins)

\* Op::infer_backward.
InferBackward(o, outs) ==
    IF o.kind = "Identity" THEN IdentityInferBackward(o, outs)
    ELSE IF o.kind = "Placeholder" THEN PlaceholderInferBackward(o, outs)
    ELSE IF o.kind = "Reshape" THEN ReshapeInferBackward(o, outs)
    ELSE IF o.kind = "Shape" THEN ShapeInferBackward(o, outs)
    ELSE IF o.kind = "Squeeze" THEN SqueezeInferBackward(o, outs)
    ELSE ExpandDimsInferBackward(o, outs)

\* The operators whose infer_forward starts with try_infer_forward_concrete!.
ConcreteFirst == {"ExpandDims", "Reshape", "Squeeze"}

\* Abstract shapes: open ones, and closed ones of known and unknown dimensions.
AShapes ==
    {OpenShape(<<>>), OpenShape(<<OnlyDim(2)>>)}
    \cup {ClosedShape(ds) : ds \in SeqUpTo({AnyDim} \cup {OnlyDim(k) : k \in 1..MaxDim}, MaxRank)}

\* The descriptor of a tensor whose value is known.
FactOf(t) ==
    ATensor(OnlyType(IF IsI32(t) THEN "DT_INT32" ELSE "DT_FLOAT"),
            ClosedFrom(t.shape), OnlyValue(t))

\* Descriptors of a data edge: a value that is not known, or a known tensor.
DataFacts ==
    {ATensor(dt, sh, AnyValue) : dt \in {AnyType, OnlyType("DT_FLOAT")}, sh \in AShapes}
    \cup {FactOf(t) : t \in {x \in F32Tensors : Len(x.data) = 2}}

\* Descriptors of a dims or axes edge: a known i32 value, a known value of
\* the wrong variant, or a value that is not known.
DimsFacts ==
    {FactOf(t) : t \in DimsTensors \cup {BadDimsTensor}}
    \cup {ATensor(OnlyType("DT_INT32"), sh, AnyValue) :
            sh \in {OpenShape(<<>>), ClosedShape(<<AnyDim>>), ClosedShape(<<OnlyDim(2)>>)}}

\* The operators with two input edges (args_2! in their eval).
TwoEdged == {"ExpandDims", "Reshape"}

\* The descriptor vectors handed to an operator's infer_forward: one
\* descriptor per input edge, and vectors that are too short or too long.
FactVecs(kind) ==
    IF kind \in TwoEdged
    THEN {<<>>} \cup {<<x>> : x \in DataFacts}
         \cup {<<x, d>> : x \in DataFacts, d \in DimsFacts}
    ELSE {<<>>} \cup {<<x>> : x \in DataFacts \cup DimsFacts}
         \cup {<<x, x>> : x \in DataFacts}

\* The descriptor vectors handed to infer_backward: one descriptor for the
\* single output edge, none, or two.
OutVecs ==
    {<<>>} \cup {<<x>> : x \in DataFacts \cup DimsFacts} \cup {<<x, x>> : x \in DataFacts}

\* Every descriptor of the vector carries a known value.
AllConcrete(v) == \A i \in 1..Len(v) : v[i].value.only

\* The vectors an operator's infer_forward is handed here.
ForwardVecs(kind) ==
    IF kind \in ConcreteFirst
    THEN {v \in FactVecs(kind) : v = <<>> \/ ~AllConcrete(v)}
    ELSE FactVecs(kind)

\* infer_forward of the built operator.
InferForwardCall ==
    /\ call = "build"
    /\ IsOk(op)
    /\ op.val.kind \in InferKinds
    /\ \E ins \in ForwardVecs(op.val.kind) :
        /\ inputs' = ins
        /\ result' = InferForward(op.val, ins)
    /\ call' = "infer_forward"
    /\ UNCHANGED <<op, feed, stage, shared, cli>>

\* infer_backward of the built operator.
InferBackwardCall ==
    /\ call = "build"
    /\ IsOk(op)
    /\ op.val.kind \in InferKinds
    /\ \E outs \in OutVecs :
        /\ inputs' = outs
        /\ result' = InferBackward(op.val, outs)
    /\ call' = "infer_backward"
    /\ UNCHANGED <<op, feed, stage, shared, cli>>

NextInfer ==
    \/ Build
    \/ InferForwardCall
    \/ InferBackwardCall
    \/ Discard

SpecInfer == Init /\ [][NextInfer]_vars

----------------------------------------------------------------------------
(* Claims about inference.                                                 *)

\* infer_forward of the built operator of this kind has returned.
Inferred(kind) == IsKind(kind) /\ call = "infer_forward"

\* C21: forward inference is sound for Reshape.  Whenever infer_forward
\* succeeds on a data descriptor of concrete shape S and a dims descriptor
\* of known value D, the closed shape it returns is the shape eval gives a
\* tensor of shape S reshaped with D (a -1 in D being resolved against the
\* product of S, whatever the rank of S).
C21_ReshapeInferenceIsSound ==
    (/\ Inferred("Reshape")
     /\ IsOk(result)
     /\ Len(inputs) = 2
     /\ IsOk(Concretize(inputs[1].shape))) =>
        LET S == Concretize(inputs[1].shape).val
            e == ReshapeEval(op.val, <<Tensor("F32", S, Fill(Product(S))), inputs[2].value.v>>)
        IN  IsOk(e) => result.val[1].shape = ClosedFrom(e.val[1].shape)

\* The refinement order of descriptors: a is at least as precise as b.
RefinesOnly(a, b) == ~b.only \/ a = b

RefinesShape(a, b) ==
    /\ b.open \/ ~a.open
    /\ IF b.open THEN Len(a.dims) >= Len(b.dims) ELSE Len(a.dims) = Len(b.dims)
    /\ \A i \in 1..Len(b.dims) : i <= Len(a.dims) => RefinesOnly(a.dims[i], b.dims[i])

RefinesFact(a, b) ==
    /\ RefinesOnly(a.datatype, b.datatype)
    /\ RefinesShape(a.shape, b.shape)
    /\ RefinesOnly(a.value, b.value)

RefinesVec(a, b) ==
    /\ Len(a) = Len(b)
    /\ \A i \in 1..Len(b) : RefinesFact(a[i], b[i])

\* C22: forward inference is monotone for Identity, Placeholder, Reshape,
\* Shape and Squeeze.  When infer_forward succeeded on a descriptor vector,
\* it succeeds on every vector that refines it component-wise, with an
\* output that refines the first output.
C22_InferenceIsMonotone ==
    (/\ call = "infer_forward"
     /\ IsOk(op)
     /\ op.val.kind \in {"Identity", "Placeholder", "Reshape", "Shape", "Squeeze"}
     /\ IsOk(result)) =>
        \A y \in ForwardVecs(op.val.kind) :
            RefinesVec(y, inputs) =>
                LET r == InferForward(op.val, y)
                IN  IsOk(r) /\ RefinesVec(r.val, result.val)

\* The shape is closed and every dimension of it is known.
IsConcreteShape(sh) == IsOk(Concretize(sh))

\* C23: Reshape.infer_forward follows the three-way rule.  With the value
\* of the dims input known, the output is a closed concrete shape with the
\* data input's type and value Any; otherwise, with the data input's shape
\* known, inference still succeeds with a shape derived from it; inference
\* fails only when neither is known.
C23_ReshapeInferenceThreeWayRule ==
    (Inferred("Reshape") /\ Len(inputs) = 2) =>
        LET data == inputs[1]
            dims == inputs[2]
            dimsKnown == dims.value.only /\ IsI32(dims.value.v)
        IN  /\ dimsKnown =>
                /\ IsOk(result)
                /\ IsConcreteShape(result.val[1].shape)
                /\ result.val[1].datatype = data.datatype
                /\ result.val[1].value = AnyValue
            /\ (~dims.value.only /\ IsConcreteShape(data.shape)) => IsOk(result)
            /\ ~IsOk(result) => (~dims.value.only /\ ~IsConcreteShape(data.shape))

\* C24: Shape.infer_forward returns, for every input descriptor of closed
\* shape, a 32-bit integer descriptor of closed shape [rank]; its value is
\* the dims exactly when every dimension of the input is known, and Any
\* (not a failure) when some dimension is unknown.
C24_ShapeInferenceOfKnownRank ==
    (Inferred("Shape") /\ Len(inputs) = 1 /\ ~inputs[1].shape.open) =>
        LET sh == inputs[1].shape
        IN  /\ IsOk(result)
            /\ result.val[1].datatype = OnlyType("DT_INT32")
            /\ result.val[1].shape = ClosedFrom(<<Len(sh.dims)>>)
            /\ IF IsConcreteShape(sh)
               THEN result.val[1].value =
                        OnlyValue(Tensor("I32", <<Len(sh.dims)>>, Concretize(sh).val))
               ELSE result.val[1].value = AnyValue

\* C25: ExpandDims.infer_forward, handed the descriptors of its two input
\* edges with the axes value known (and no axis negative), succeeds with an
\* open shape that holds Exactly(1) at every requested axis and Any at the
\* other positions before the last requested axis, and with the data
\* input's type.
C25_ExpandDimsInference ==
    (/\ Inferred("ExpandDims")
     /\ Len(inputs) = 2
     /\ inputs[2].value.only
     /\ IsI32(inputs[2].value.v)
     /\ \A i \in 1..Len(inputs[2].value.v.data) : inputs[2].value.v.data[i] >= 0) =>
        LET axes == inputs[2].value.v.data
        IN  /\ IsOk(result)
            /\ result.val[1].shape.open
            /\ result.val[1].datatype = inputs[1].datatype
            /\ \A i \in 1..Len(axes) :
                /\ axes[i] < Len(result.val[1].shape.dims)
                /\ result.val[1].shape.dims[axes[i] + 1] = OnlyDim(1)
            /\ \A p \in 1..Len(result.val[1].shape.dims) :
                ~Contains(axes, p - 1) => result.val[1].shape.dims[p] = AnyDim

\* The number of input edges of an operator.
InputEdges(kind) ==
    IF kind \in TwoEdged THEN 2 ELSE IF kind = "Placeholder" THEN 0 ELSE 1

\* C26: infer_backward, given the single output descriptor, returns one
\* descriptor per input edge of the operator (two for Reshape and
\* ExpandDims, one for Identity, Shape and Squeeze), none of which has a
\* type other than the output's where a type is propagated; Placeholder,
\* which has no inputs, returns an error.
C26_BackwardInferenceCoversInputs ==
    (/\ call = "infer_backward"
     /\ IsOk(op)
     /\ op.val.kind \in InferKinds
     /\ Len(inputs) = 1) =>
        IF op.val.kind = "Placeholder" THEN IsErr(result)
        ELSE IsOk(result) =>
                /\ Len(result.val) = InputEdges(op.val.kind)
                /\ RefinesOnly(inputs[1].datatype, result.val[1].datatype)

----------------------------------------------------------------------------
(* The compare subcommand in a build with the tensorflow feature           *)
(* (handle_compare).  The evaluation state (state.outputs, compute_one,    *)
(* set_values, set_outputs) belongs to the library crate's root and        *)
(* follows the specification: cli.outputs tells, for each node, where the  *)
(* outputs the state holds for it come from.                               *)

\* The nodes whose outputs the state holds.
Present(outputs) == {n \in DOMAIN outputs : outputs[n] # "absent"}

\* state.set_values(generated): the inputs (the Placeholders) are fed.
SetValues(g) ==
    [n \in NodeIds |-> IF OpName(g, n) = "Placeholder" THEN "generated" ELSE "absent"]

\* Mutant of Rebind: the outputs the engine computed are kept.
Rebind_Skipped(outputs, n) == outputs

\* state.set_outputs(node.id, tf_output): the node's outputs are replaced
\* by the reference framework's.
Rebind(outputs, n) == [outputs EXCEPT ![n] = "reference"]

\* The error counter after a node's status is known: it is declared
\* (let mut errors = 0) and no statement of the loop assigns it.
Errors(errors, status) == errors

\* The status of a compared node: compute_one failed, compare_outputs
\* found a mismatch, or the outputs agree.
Status(r, close) == IF IsErr(r) THEN "ERROR" ELSE IF close THEN "OK" ELSE "MISM."

\* The head of handle_compare: the output node is looked up, the reference
\* framework runs the whole model, the inputs are fed and the plan computed.
CompareHandle ==
    /\ cli.pc = "parsed"
    /\ cli.cmd = "compare"
    /\ \/ \E e \in {"get_node", "run_get_all", "set_values"} : cli' = Handled(Err(<<e>>))
       \/ LET plan == EvalOrder(cli.graph, Target)
          IN  cli' = IF IsOk(plan)
                     THEN [cli EXCEPT !.pc = "compare", !.plan = plan,
                                      !.outputs = SetValues(cli.graph)]
                     ELSE Handled(plan)
    /\ UNCHANGED <<op, call, inputs, result, feed, stage, shared>>

\* One iteration of the loop of handle_compare: a Placeholder is skipped;
\* any other node is computed from the outputs the state holds for its
\* inputs, compared, printed and re-bound to the reference outputs.  The
\* iteration ends early when node_info fails, and unwinds when eval aborts.
CompareStep ==
    /\ cli.pc = "compare"
    /\ cli.pos < Len(cli.plan.val)
    /\ LET n == PlanNode(cli.plan.val, cli.pos)
           g == cli.graph
       IN  IF OpName(g, n) = "Placeholder"
           THEN \/ cli' = [cli EXCEPT !.pos = @ + 1, !.printed = @ \cup {"SKIP"}]
                \/ cli' = Handled(Err(<<"node_info">>))
           ELSE \E eval \in EvalOutcomes, close \in BOOLEAN :
                  LET r == ComputeOne(g, n, Present(cli.outputs), eval)
                      read == [cli EXCEPT
                                 !.reads = @ \cup {<<g[n][i], cli.outputs[g[n][i]]>> : i \in 1..Len(g[n])},
                                 !.outputs = IF IsOk(r) THEN [@ EXCEPT ![n] = "engine"] ELSE @]
                  IN  \/ /\ IsPanic(r)
                         /\ cli' = [read EXCEPT !.pc = "handled", !.outcome = r]
                      \/ /\ ~IsPanic(r)
                         /\ cli' = [read EXCEPT !.pc = "handled",
                                                !.outcome = Err(<<"node_info">>)]
                      \/ /\ ~IsPanic(r)
                         /\ cli' = [read EXCEPT !.pos = @ + 1,
                                                !.printed = @ \cup {Status(r, close)},
                                                !.errors = Errors(@, Status(r, close)),
                                                !.outputs = Rebind(@, n)]
    /\ UNCHANGED <<op, call, inputs, result, feed, stage, shared>>

\* The loop is over: "Found N errors." when the counter is not 0, Ok(())
\* otherwise.
CompareDone ==
    /\ cli.pc = "compare"
    /\ cli.pos = Len(cli.plan.val)
    /\ cli' = IF cli.errors # 0 THEN Handled(Err(<<"Found errors.">>))
              ELSE Handled(Ok(<<>>))
    /\ UNCHANGED <<op, call, inputs, result, feed, stage, shared>>

NextCompare ==
    \/ CliParse
    \/ CompareHandle
    \/ CompareStep
    \/ CompareDone
    \/ MainExit

SpecCompare == Init /\ [][NextCompare]_vars

\* C27: in the compare loop, once the body for a non-Placeholder node of the
\* plan has completed, the evaluation state holds the reference framework's
\* outputs for it, whether compute_one succeeded, failed or mismatched; so
\* every compute_one reads reference outputs, never outputs the engine
\* computed, for its non-Placeholder predecessors.
C27_CompareRebindsToReference ==
    (cli.cmd = "compare" /\ IsOk(cli.plan)) =>
        /\ \A k \in 1..cli.pos :
            OpName(cli.graph, cli.plan.val[k]) # "Placeholder" =>
                cli.outputs[cli.plan.val[k]] = "reference"
        /\ \A rd \in cli.reads :
            OpName(cli.graph, rd[1]) # "Placeholder" => rd[2] = "reference"

\* C27 witness: node 1 reads node 2, which reads the Placeholder 3; the body
\* for node 2 and then for node 1 has completed, one with an error or a
\* mismatch, and node 1 was computed from the reference outputs of node 2.
C27_Witness ==
    /\ cli.pc = "compare"
    /\ cli.graph[1] = <<2>>
    /\ cli.graph[2] = <<3>>
    /\ cli.graph[3] = <<>>
    /\ cli.pos = 3
    /\ cli.printed = {"SKIP", "ERROR", "MISM."}
    /\ cli.reads = {<<3, "generated">>, <<2, "reference">>}
    /\ cli.outputs = <<"reference", "reference", "generated">>

\* C28: handle_compare returns an error (hence exit code 1) whenever a node
\* of the plan failed in compute_one or produced outputs that mismatch the
\* reference, and returns Ok only when every compared node matched.
C28_CompareReportsFailures ==
    (cli.cmd = "compare" /\ cli.pc = "exited" /\ IsOk(cli.plan)) =>
        /\ (cli.printed \cap {"ERROR", "MISM."} # {}) => (IsErr(cli.outcome) /\ cli.exit = 1)
        /\ IsOk(cli.outcome) => cli.printed \cap {"ERROR", "MISM."} = {}

----------------------------------------------------------------------------
\* C29: Reshape.eval returns an error rather than aborting when dims holds
\* -1 together with a 0 (the product of the other dims is zero), and for
\* every i32 dims vector and every input tensor it returns a tensor or an
\* error.
C29_ReshapeEvalNeverAborts ==
    (Evaluated("Reshape") /\ Len(inputs) = 2 /\ IsI32(inputs[2])) =>
        (IsOk(result) \/ IsErr(result))

----------------------------------------------------------------------------
(* The reference framework (conform/src/tf.rs): run_get_all runs the whole *)
(* graph in one step and converts the output of every operation that is    *)
(* not an input.  The tensorflow crate is not among the sources: a step    *)
(* hands out the tensor of a token only at the tensor's own type.          *)

\* The largest number of operations of a graph.
TfMaxOps == 3

\* The data types of tensorflow outputs: five that convert_output knows and
\* one it does not.
TfTypes == {"Float", "Int32", "UInt8", "Double"}

\* The graphs: operations in the order of operation_iter, each with its
\* name (a number) and the type of its output 0; names are unique.
TfGraphs ==
    {g \in SeqUpTo([name : 1..TfMaxOps, dtype : TfTypes], TfMaxOps) :
        \A i, j \in 1..Len(g) : g[i].name = g[j].name => i = j}

\* The names given as inputs: operations of the graph, or a name (0) that
\* the graph does not hold.
TfInputs == SUBSET (0..TfMaxOps)

\* The operations whose output is requested, in the order of the requests.
Requested(g, excluded) == SelectSeq(g, LAMBDA o : o.name \notin excluded)

\* step.output_data_type(0).unwrap(): the type of the first requested
\* output, read once before the loop and used for every token.
OutputType(tokens, o) ==
    IF tokens = <<>> THEN Panic(<<"called Option::unwrap() on a None value">>)
    ELSE Ok(tokens[1].dtype)

\* convert_output: the variant chosen from output_type, then take_output at
\* that variant's element type.
ConvertOutput(output_type, o) ==
    LET variant == IF output_type = "Float" THEN "F32"
                   ELSE IF output_type = "UInt8" THEN "U8"
                   ELSE IF output_type = "Int8" THEN "I8"
                   ELSE IF output_type = "String" THEN "String"
                   ELSE IF output_type = "Int32" THEN "I32"
                   ELSE "none"
    IN  IF variant = "none" THEN Err(<<"Missing tensor to matrix for type ", output_type>>)
        ELSE IF o.dtype # output_type
        THEN Err(<<"Requested tensor type does not match actual tensor type.">>)
        ELSE Ok(<<variant>>)

\* Tensorflow::run_get_all: the outputs by name, as the set of the pairs
\* (name, variant of the converted tensor).
RunGetAll(g, names, run) ==
    IF \E n \in names : \A i \in 1..Len(g) : g[i].name # n
    THEN Err(<<"operation_by_name_required">>)
    ELSE IF ~run THEN Err(<<"session.run">>)
    ELSE LET tokens == Requested(g, names)
             types == [i \in 1..Len(tokens) |-> OutputType(tokens, tokens[i])]
         IN  IF tokens = <<>> THEN OutputType(tokens, tokens)
             ELSE LET conv == [i \in 1..Len(tokens) |-> ConvertOutput(types[i].val, tokens[i])]
                  IN  IF \E i \in 1..Len(conv) : ~IsOk(conv[i])
                      THEN conv[CHOOSE i \in 1..Len(conv) : ~IsOk(conv[i])]
                      ELSE Ok({<<tokens[i].name, conv[i].val[1]>> : i \in 1..Len(tokens)})

\* run_get_all on a graph, with some names as inputs; the session runs or
\* fails.
RunGetAllCall ==
    /\ call = "new"
    /\ \E g \in TfGraphs, names \in TfInputs, run \in BOOLEAN :
        /\ inputs' = <<g, names, run>>
        /\ result' = RunGetAll(g, names, run)
    /\ call' = "run_get_all"
    /\ UNCHANGED <<op, feed, stage, shared, cli>>

NextTf ==
    \/ RunGetAllCall
    \/ Discard

SpecTf == Init /\ [][NextTf]_vars

\* The variant of the matrix a tensorflow type converts to.
VariantOfTf(dtype) ==
    IF dtype = "Float" THEN "F32" ELSE IF dtype = "Int32" THEN "I32" ELSE "U8"

\* C30: run_get_all returns one entry for every operation of the graph whose
\* name is not among the inputs and none for the inputs, and each returned
\* tensor is converted according to the type of its own node's output,
\* whatever the types of the other requested outputs.
C30_RunGetAllConvertsEachOutput ==
    (/\ call = "run_get_all"
     /\ inputs[3]
     /\ \A n \in inputs[2] : \E i \in 1..Len(inputs[1]) : inputs[1][i].name = n
     /\ \A i \in 1..Len(inputs[1]) : inputs[1][i].dtype # "Double") =>
        /\ IsOk(result)
        /\ result.val = {<<inputs[1][i].name, VariantOfTf(inputs[1][i].dtype)>> :
                            i \in {j \in 1..Len(inputs[1]) : inputs[1][j].name \notin inputs[2]}}

====
